---- MODULE Spec2Model ----
(***************************************************************************)
(* Model of the sensorbee static topology builder (package core) and of    *)
(* the BQL select box (package bql).                                       *)
(***************************************************************************)
EXTENDS Integers, Sequences, FiniteSets, TLC

(***************************************************************************)
(* Bounds of the builder model.                                            *)
(***************************************************************************)
\* the longest edge list the callers build under Spec
MaxEdges == 3
\* the longest edge list the callers build under SpecObjects
MaxObjectEdges == 2
\* the longest edge list the callers build under SpecCycle
MaxCycleEdges == 4
\* the edges the callers of SpecDag declare
MaxDagEdges == 3

\* node names handed to AddSource/AddBox/AddSink and used as references
Names == {"n1", "n2", "n3", "n4"}
\* the Source and Sink objects a caller may register
SourceVals == {"src1", "src2"}
SinkVals == {"snk1", "snk2"}
\* input names a caller passes to NamedInput ("*" is what Input passes)
InputNames == {"*", "x"}
\* the Box objects a caller may register; they differ in InputConstraints()
BoxVals == {"boxNil", "boxNilSchema", "boxX", "boxStar", "boxNone", "boxErr"}

\* the state of a defaultStaticTopologyBuilder, the declarers it handed out
\* and what its last call returned
VARIABLES sources, boxes, boxpointers, sinks, Edges, builtFlag, declarers, ret

\* the fields of a bqlBox
VARIABLES emitterLimit, emitterSampling, emitterSamplingType, genCount,
          emitCount, lastTuple, lastWriter, stopped, removeMe, mutex,
          timeEmitterMutex

\* the goroutines around a bqlBox: the callers of Process, the timeEmitter
\* and its ticker, the caller of Terminate; what Process can have seen of
\* emitCount; the calls the box made to its writers and to removeMe; and the
\* error the last Process call returned
VARIABLES procs, emitter, ticker, terminator, seenEmitCount,
          calls, generated, writes, removed, processErr

builderVars == <<sources, boxes, boxpointers, sinks, Edges, builtFlag, declarers, ret>>

bqlBoxVars == <<emitterLimit, emitterSampling, emitterSamplingType, genCount,
                emitCount, lastTuple, lastWriter, stopped, removeMe, mutex,
                timeEmitterMutex, procs, emitter, ticker, terminator,
                seenEmitCount, calls, generated, writes, removed, processErr>>

\* an input tuple of Process, the rows the plan returned for it, the tuples
\* Process made of them, and the backing arrays of the Trace slices
VARIABLES t, resultData, tups, arrays

tupleVars == <<t, resultData, tups, arrays>>

\* the DynamicTopology a bql TopologyBuilder works on, the shared states of
\* its context, the counter of temporary names, and what AddStmt returned
VARIABLES topology, sharedStates, topologyBuilderTemporaryID, stmtRet

stmtVars == <<topology, sharedStates, topologyBuilderTemporaryID, stmtRet>>

\* the request a Queries or WebSocketQueries action of the server works on
\* (its queries string, the statements parsed from it, the place in the
\* loop over them, the handler it was passed to), the responses it has rendered or sent for it, and the AddStmt calls it
\* has made for it
VARIABLES request, responses, addStmtCalls

serverVars == <<request, responses, addStmtCalls>>

\* a handler of a streaming SELECT (its place, whether it serves a WebSocket,
\* the rid of the request, its sent flag, the timer events it has seen), what
\* it has sent on the connection, the output channel and the temporary sink
\* AddSelectUnionStmt returned, and the goroutine that drains the channel
VARIABLES sel, conn, ch, sn, drainer

selectVars == <<sel, conn, ch, sn, drainer>>

\* the creators maps of the UDSF creator registries and of the caller of
\* List, the registries (their map and their RWMutex), the map the last List
\* returned, the goroutines that call the registries, and what the last
\* call that returned has returned
VARIABLES maps, registry, listed, thr, regRet

registryVars == <<maps, registry, listed, thr, regRet>>

vars == <<builderVars, bqlBoxVars, tupleVars, stmtVars, serverVars, selectVars,
          registryVars>>

\* what the calls on a defaultStaticTopologyBuilder leave alone
outsideBuilder == <<bqlBoxVars, tupleVars, stmtVars, serverVars, selectVars,
        registryVars>>

\* what the goroutines of a bqlBox leave alone
outsideBQLBox == <<builderVars, tupleVars, stmtVars, serverVars, selectVars,
        registryVars>>

(***************************************************************************)
(* Errors.  A Go error is modelled by the tuple of the strings that make   *)
(* up its message; the nil error is the empty tuple.                       *)
(***************************************************************************)
NoErr == <<>>
topologyBuilderAlreadyCalledBuildMsg == <<"this topology builder has already built the topology">>
NilTopology == <<>>

\* *BoxInputConstraints: isNil is the nil pointer, schemaNil the nil Schema
\* map, Schema the input names the map declares
BoxInputConstraints(isNil, schemaNil, schema) ==
    [isNil |-> isNil, schemaNil |-> schemaNil, Schema |-> schema]

\* Box.InputConstraints(): the constraints and the error a box returns
InputConstraints(box) ==
    CASE box = "boxNil"       -> [ic |-> BoxInputConstraints(TRUE, TRUE, {}), err |-> NoErr]
      [] box = "boxNilSchema" -> [ic |-> BoxInputConstraints(FALSE, TRUE, {}), err |-> NoErr]
      [] box = "boxX"         -> [ic |-> BoxInputConstraints(FALSE, FALSE, {"x"}), err |-> NoErr]
      [] box = "boxStar"      -> [ic |-> BoxInputConstraints(FALSE, FALSE, {"*"}), err |-> NoErr]
      [] box = "boxNone"      -> [ic |-> BoxInputConstraints(FALSE, FALSE, {}), err |-> NoErr]
      [] box = "boxErr"       -> [ic |-> BoxInputConstraints(TRUE, TRUE, {}),
                                  err |-> <<"input constraints failed">>]
      [] OTHER                -> [ic |-> BoxInputConstraints(TRUE, TRUE, {}), err |-> NoErr]

dataflowEdge(from, to, inputName) == [From |-> from, To |-> to, InputName |-> inputName]

\* checkName without the lookup in the sources
checkNameSkipsSources(name) ==
    IF name \in DOMAIN boxes THEN <<"there is already a box called", name>>
    ELSE IF name \in DOMAIN sinks THEN <<"there is already a sink called", name>>
    ELSE NoErr

\* check if the given name can be used as a source, box, or sink name
checkName(name) ==
    IF name \in DOMAIN sources THEN <<"there is already a source called", name>>
    ELSE IF name \in DOMAIN boxes THEN <<"there is already a box called", name>>
    ELSE IF name \in DOMAIN sinks THEN <<"there is already a sink called", name>>
    ELSE NoErr

\* IsValidOutputReference that takes a sink as well
IsValidOutputReferenceAnyNode(name) ==
    name \in DOMAIN sources \/ name \in DOMAIN boxes \/ name \in DOMAIN sinks

\* check if the given name is an existing box or source
IsValidOutputReference(name) ==
    name \in DOMAIN sources \/ name \in DOMAIN boxes

\* m[k] = v for a Go map
MapSet(m, k, v) == [x \in DOMAIN m \cup {k} |-> IF x = k THEN v ELSE m[x]]

EmptyMap == [x \in {} |-> "none"]

\* the declarers Add* hand out: one bound to the builder, or one that only
\* carries the error (its tb, name and node are zero values)
boundDeclarer(kind, name, node) ==
    [kind |-> kind, tb |-> TRUE, name |-> name, node |-> node, err |-> NoErr]
errDeclarer(kind, e) ==
    [kind |-> kind, tb |-> FALSE, name |-> "", node |-> "nil", err |-> e]
NoDeclarer == errDeclarer("none", NoErr)

\* what the last call returned: Add* and Input return a declarer d (Input the
\* declarer it was called on), Build returns the topology st and the error err
Call(op, d, e, st) == [op |-> op, d |-> d, err |-> e, st |-> st]

\* the declarers a caller can call Input on: the bound ones, and (chaining
\* tb.AddBox(..).Input(..).Input(..)) the one the last call returned
held == declarers \cup {ret.d}

\* the builder after NewDefaultStaticTopologyBuilder
newBuilder ==
    /\ sources = EmptyMap
    /\ boxes = EmptyMap
    /\ boxpointers = {}
    /\ sinks = EmptyMap
    /\ Edges = <<>>
    /\ builtFlag = FALSE
    /\ declarers = {}
    /\ ret = Call("NewDefaultStaticTopologyBuilder", NoDeclarer, NoErr, NilTopology)

(***************************************************************************)
(* bqlBox: constants of the model                                          *)
(***************************************************************************)
\* the Process calls made on the box
MaxCalls == 2
\* the most rows the execution plan returns over all input tuples
MaxRows == 3

\* the goroutines that call Process
ProcThreads == {"p1", "p2"}
\* the writers passed to Process
Writers == {"w1"}
\* parser.EmitterSamplingType
UnspecifiedSamplingType == "UnspecifiedSamplingType"
CountBasedSampling == "CountBasedSampling"
RandomizedSampling == "RandomizedSampling"
TimeBasedSampling == "TimeBasedSampling"
\* the emitter clauses execution.Analyze yields: LIMIT (-1: none) and sampling
EmitterLimits == {-1, 0, 1, 2}
EmitterSamplings ==
    {<<UnspecifiedSamplingType, 0>>, <<CountBasedSampling, 1>>,
     <<CountBasedSampling, 2>>, <<RandomizedSampling, 50>>,
     <<TimeBasedSampling, 1>>}

\* a Process frame that is not running
idleProc == [pc |-> "idle", s |-> "nil", rows |-> <<>>, tup |-> -1]

\* no bqlBox is around the builder
noBQLBox ==
    /\ emitterLimit = 0 /\ emitterSampling = 0
    /\ emitterSamplingType = UnspecifiedSamplingType
    /\ genCount = 0 /\ emitCount = 0
    /\ lastTuple = -1 /\ lastWriter = "nil"
    /\ stopped = FALSE /\ removeMe = FALSE
    /\ mutex = "free" /\ timeEmitterMutex = "free"
    /\ procs = [p \in ProcThreads |-> idleProc]
    /\ emitter = "none" /\ ticker = "none" /\ terminator = "idle"
    /\ seenEmitCount = 0 /\ calls = 0 /\ generated = 0
    /\ writes = <<>> /\ removed = 0
    /\ processErr = NoErr

\* the server handles no request
noRequest ==
    /\ request = [pc |-> "idle", ws |-> FALSE, queries |-> <<>>, stmts |-> <<>>,
                  i |-> 0, handler |-> "nil"]
    /\ responses = <<>>
    /\ addStmtCalls = <<>>

\* no streaming SELECT is handled
noSelect ==
    /\ sel = [pc |-> "idle", ws |-> FALSE, rid |-> 0, sent |-> FALSE, polls |-> 0]
    /\ conn = <<>>
    /\ ch = [closed |-> FALSE, offered |-> FALSE]
    /\ sn = [state |-> "none", stops |-> 0, tuples |-> 0]
    /\ drainer = "none"

\* the goroutines that call the registries
RegThreads == {"t1", "t2"}

\* a goroutine that is in no call, and the return of no call
idleThread ==
    [pc |-> "idle", op |-> "nil", reg |-> "nil", typeName |-> "nil", c |-> "nil",
     arity |-> 0, ok |-> FALSE, m |-> EmptyMap]

noReturn == [th |-> "nil", op |-> "nil", err |-> NoErr, out |-> "nil"]

\* globalUDSFCreatorRegistry = NewDefaultUDSFCreatorRegistry(): the global
\* registry is empty, and no copy of it has been made
newRegistries ==
    /\ maps = [m \in {"globalMap", "copyMap", "listMap"} |-> EmptyMap]
    /\ registry = [g \in {"global", "copy"} |->
                    [creators |-> IF g = "global" THEN "globalMap" ELSE "nil",
                     w |-> "free", r |-> {}]]
    /\ listed = "nil"
    /\ thr = [th \in RegThreads |-> idleThread]
    /\ regRet = noReturn

\* a nil slice, and the slice of the first n elements of the array arr
nilSlice == [arr |-> 0, len |-> 0]

\* no Process call is building tuples
noTuple ==
    /\ t = [Timestamp |-> 0, ProcTimestamp |-> 0, BatchID |-> 0, Trace |-> nilSlice]
    /\ resultData = <<>>
    /\ tups = <<>>
    /\ arrays = <<>>

\* a DynamicTopology without nodes
emptyTopology == [nodes |-> EmptyMap, edges |-> {}]

\* what AddStmt returned: the statement, the node, the error, and the calls
\* it made on the topology
StmtCall(stmt, node, err, log) == [stmt |-> stmt, node |-> node, err |-> err, log |-> log]

\* NewTopologyBuilder on an empty topology; no statement was added
newTopologyBuilder ==
    /\ topology = emptyTopology
    /\ sharedStates = {}
    /\ topologyBuilderTemporaryID = 0
    /\ stmtRet = StmtCall([type |-> "none", Name |-> "nil", Type |-> "nil",
                           Relations |-> <<>>, EmitterType |-> "nil",
                           Sink |-> "nil"], "nil", NoErr, <<>>)

Init == newBuilder /\ noBQLBox /\ noTuple /\ newTopologyBuilder /\ noRequest
        /\ noSelect /\ newRegistries

\* addErr without the check of builtFlag
addErrIgnoresBuiltFlag(name) == checkName(name)

\* the error AddSource/AddBox/AddSink return for a name (NoErr: the node is stored)
addErr(name) ==
    IF builtFlag THEN topologyBuilderAlreadyCalledBuildMsg
    ELSE checkName(name)

AddSource(name, source) ==
    /\ sources' = IF addErr(name) = NoErr THEN MapSet(sources, name, source) ELSE sources
    /\ ret' = Call("AddSource", errDeclarer("source", addErr(name)), NoErr, NilTopology)
    /\ UNCHANGED <<boxes, boxpointers, sinks, Edges, builtFlag, declarers>>
    /\ UNCHANGED outsideBuilder

AddBox(name, box) ==
    /\ IF addErr(name) = NoErr
       THEN /\ boxes' = MapSet(boxes, name, box)
            /\ boxpointers' = boxpointers \cup {name}
            /\ declarers' = declarers \cup {boundDeclarer("box", name, box)}
            /\ ret' = Call("AddBox", boundDeclarer("box", name, box), NoErr, NilTopology)
       ELSE /\ ret' = Call("AddBox", errDeclarer("box", addErr(name)), NoErr, NilTopology)
            /\ UNCHANGED <<boxes, boxpointers, declarers>>
    /\ UNCHANGED <<sources, sinks, Edges, builtFlag>>
    /\ UNCHANGED outsideBuilder

AddSink(name, sink) ==
    /\ IF addErr(name) = NoErr
       THEN /\ sinks' = MapSet(sinks, name, sink)
            /\ declarers' = declarers \cup {boundDeclarer("sink", name, sink)}
            /\ ret' = Call("AddSink", boundDeclarer("sink", name, sink), NoErr, NilTopology)
       ELSE /\ ret' = Call("AddSink", errDeclarer("sink", addErr(name)), NoErr, NilTopology)
            /\ UNCHANGED <<sinks, declarers>>
    /\ UNCHANGED <<sources, boxes, boxpointers, Edges, builtFlag>>
    /\ UNCHANGED outsideBuilder

(***************************************************************************)
(* BoxDeclarer.NamedInput and SinkDeclarer.Input                           *)
(***************************************************************************)
\* inputNameOk without the "*" schema
inputNameOkNoWildcard(ic, inputName) ==
    IF ic.isNil \/ ic.schemaNil THEN TRUE
    ELSE IF inputName \in ic.Schema THEN TRUE
    ELSE FALSE

\* the decision on the input name taken from the box's input constraints
inputNameOk(ic, inputName) ==
    IF ic.isNil \/ ic.schemaNil THEN TRUE
    ELSE IF inputName \in ic.Schema THEN TRUE
    ELSE IF "*" \in ic.Schema THEN TRUE
    ELSE FALSE

\* the check that looks at every edge of the list
edgeAlreadyExistsAnywhere(edge) ==
    \E i \in 1..Len(Edges) : edge = Edges[i]

\* "check if this edge already exists"
edgeAlreadyExists(edge) ==
    IF Len(Edges) = 0 THEN FALSE ELSE edge = Edges[1]

\* the error NamedInput sets on a box declarer without error (NoErr: the edge is stored)
namedInputErr(bd, refname, inputName) ==
    IF ~IsValidOutputReference(refname)
    THEN <<"there is no box or source named", refname>>
    ELSE IF InputConstraints(bd.node).err # NoErr
    THEN InputConstraints(bd.node).err
    ELSE IF ~inputNameOk(InputConstraints(bd.node).ic, inputName)
    THEN <<"you cannot use as an input name", inputName>>
    ELSE IF edgeAlreadyExists(dataflowEdge(refname, bd.name, inputName))
    THEN <<"box is already connected to", bd.name, refname>>
    ELSE NoErr

\* the error Input sets on a sink declarer without error
sinkInputErr(sd, refname) ==
    IF ~IsValidOutputReference(refname)
    THEN <<"there is no box or source named", refname>>
    ELSE IF edgeAlreadyExists(dataflowEdge(refname, sd.name, "output"))
    THEN <<"box is already connected to", sd.name, refname>>
    ELSE NoErr

\* hasPreviousError of a declarer that forgets its error
hasPreviousErrorForgotten(d) == FALSE

\* the declarer's own "if there was a previous error, do nothing"
hasPreviousError(d) == d.err # NoErr

\* the declarer d after an Input call that found the error e (NoErr: none)
withErr(d, e) == IF e = NoErr THEN d ELSE [d EXCEPT !.err = e]

\* an Input call on the declarer d that finds the error e or else appends edge
declarerInput(op, d, e, edge) ==
    /\ IF hasPreviousError(d)
       THEN /\ ret' = Call(op, d, NoErr, NilTopology)
            /\ UNCHANGED <<Edges, declarers>>
       ELSE /\ Edges' = IF e = NoErr THEN Append(Edges, edge) ELSE Edges
            /\ declarers' = (declarers \ {d}) \cup {withErr(d, e)}
            /\ ret' = Call(op, withErr(d, e), NoErr, NilTopology)
    /\ UNCHANGED <<sources, boxes, boxpointers, sinks, builtFlag>>
    /\ UNCHANGED outsideBuilder

NamedInput(bd, refname, inputName) ==
    /\ bd \in held
    /\ bd.kind = "box"
    /\ declarerInput("NamedInput", bd, namedInputErr(bd, refname, inputName),
                     dataflowEdge(refname, bd.name, inputName))

SinkInput(sd, refname) ==
    /\ sd \in held
    /\ sd.kind = "sink"
    /\ declarerInput("Input", sd, sinkInputErr(sd, refname),
                     dataflowEdge(refname, sd.name, "output"))

(***************************************************************************)
(* Build, hasCycle and detectCycle                                         *)
(***************************************************************************)
\* adj[e.From] = append(adj[e.From], e.To) over the edge list; a missing key
\* reads as the empty slice
adjacency(edges) ==
    [n \in Names |->
        LET out == SelectSeq(edges, LAMBDA e : e.From = n)
        IN  [i \in 1..Len(out) |-> out[i].To]]

\* visited: 0: not yet, 1: visiting, 2: visited
notYetVisited == [n \in Names |-> 0]

\* path[i], path[p] = path[p], path[i] for i < len(path)/2
reversePath(path) == [i \in 1..Len(path) |-> path[Len(path) - i + 1]]

RECURSIVE detectCycle(_, _, _)
RECURSIVE detectCycleLoop(_, _, _, _)

\* detectCycleLoop that appends the node to a path that is closed already
detectCycleLoopAppendsAlways(node, adj, visited, i) ==
    IF i > Len(adj[node])
    THEN [path |-> <<>>, visited |-> [visited EXCEPT ![node] = 2]]
    ELSE LET r == detectCycle(adj[node][i], adj, visited)
         IN  IF r.path # <<>>
             THEN [path |-> Append(r.path, node), visited |-> r.visited]
             ELSE detectCycleLoop(node, adj, r.visited, i + 1)

\* the loop of detectCycle over adj[node], from its i-th element on
detectCycleLoop(node, adj, visited, i) ==
    IF i > Len(adj[node])
    THEN [path |-> <<>>, visited |-> [visited EXCEPT ![node] = 2]]
    ELSE LET r == detectCycle(adj[node][i], adj, visited)
         IN  IF r.path # <<>>
             THEN IF Len(r.path) > 1 /\ r.path[1] = r.path[Len(r.path)]
                  THEN r
                  ELSE [path |-> Append(r.path, node), visited |-> r.visited]
             ELSE detectCycleLoop(node, adj, r.visited, i + 1)

\* detectCycle that takes a visited node for a node being visited
detectCycleTwoColours(node, adj, visited) ==
    IF visited[node] # 0 THEN [path |-> <<node>>, visited |-> visited]
    ELSE detectCycleLoop(node, adj, [visited EXCEPT ![node] = 1], 1)

\* detectCycle returns the non-empty path in the reverse order when it detected
\* a cycle, with the visited map as the call leaves it (nil path: <<>>)
detectCycle(node, adj, visited) ==
    IF visited[node] = 1 THEN [path |-> <<node>>, visited |-> visited]
    ELSE IF visited[node] = 2 THEN [path |-> <<>>, visited |-> visited]
    ELSE detectCycleLoop(node, adj, [visited EXCEPT ![node] = 1], 1)

RECURSIVE hasCycleLoop(_, _, _, _)
\* the loop of hasCycle over the sources, taken in the sequence order
hasCycleLoop(order, i, adj, visited) ==
    IF i > Len(order)
    THEN [has |-> FALSE, path |-> <<>>]
    ELSE LET r == detectCycle(order[i], adj, visited)
         IN  IF Len(r.path) # 0
             THEN [has |-> TRUE, path |-> reversePath(r.path)]
             ELSE hasCycleLoop(order, i + 1, adj, r.visited)

\* hasCycle, where order is the order in which range yields the sources
hasCycle(order) == hasCycleLoop(order, 1, adjacency(Edges), notYetVisited)

\* the orders in which range tb.sources can yield the keys of the map
rangeOrders(m) ==
    {o \in [1..Cardinality(DOMAIN m) -> DOMAIN m] :
        \A i, j \in DOMAIN o : i # j => o[i] # o[j]}

\* the error Build returns (NoErr: the topology is built)
buildErr(order) ==
    IF builtFlag THEN topologyBuilderAlreadyCalledBuildMsg
    ELSE IF Cardinality(DOMAIN sources) = 0 THEN <<"there must be at least one source">>
    ELSE IF hasCycle(order).has
    THEN <<"the topology has a cycle">> \o hasCycle(order).path
    ELSE NoErr

\* the defaultStaticTopology Build wires: the node maps and one channel for
\* each edge, from dsts[e.From] to conns[e.To]
defaultStaticTopology ==
    <<[srcs |-> sources, boxes |-> boxes, sinks |-> sinks, chans |-> Edges]>>

\* Build that sets builtFlag before its checks
BuildFreezesFirst(order) ==
    /\ order \in rangeOrders(sources)
    /\ builtFlag' = TRUE
    /\ ret' = IF buildErr(order) = NoErr
              THEN Call("Build", NoDeclarer, NoErr, defaultStaticTopology)
              ELSE Call("Build", NoDeclarer, buildErr(order), NilTopology)
    /\ UNCHANGED <<sources, boxes, boxpointers, sinks, Edges, declarers>>
    /\ UNCHANGED outsideBuilder

Build(order) ==
    /\ order \in rangeOrders(sources)
    /\ IF buildErr(order) = NoErr
       THEN /\ builtFlag' = TRUE
            /\ ret' = Call("Build", NoDeclarer, NoErr, defaultStaticTopology)
       ELSE /\ ret' = Call("Build", NoDeclarer, buildErr(order), NilTopology)
            /\ UNCHANGED builtFlag
    /\ UNCHANGED <<sources, boxes, boxpointers, sinks, Edges, declarers>>
    /\ UNCHANGED outsideBuilder

(***************************************************************************)
(* Spec: the callers build graphs over three names, with one object of    *)
(* each kind and the input name "*" of BoxDeclarer.Input.                 *)
(***************************************************************************)
Next ==
    \/ \E n \in {"n1", "n2"} : AddSource(n, "src1")
    \/ \E n \in {"n2", "n3"} : AddBox(n, "boxNil")
    \/ \E n \in {"n3", "n1"} : AddSink(n, "snk1")
    \/ \E d \in held, r \in {"n1", "n2", "n3"} :
            Len(Edges) < MaxEdges /\ NamedInput(d, r, "*")
    \/ \E d \in held, r \in {"n1", "n2", "n3"} :
            Len(Edges) < MaxEdges /\ SinkInput(d, r)
    \/ \E o \in rangeOrders(sources) : Build(o)

Spec == Init /\ [][Next]_vars

(***************************************************************************)
(* SpecObjects: the callers register any of the Source, Box and Sink       *)
(* objects under two names and connect them with any input name.           *)
(***************************************************************************)
NextObjects ==
    \/ \E n \in {"n1", "n2"}, s \in SourceVals : AddSource(n, s)
    \/ \E n \in {"n1", "n2"}, b \in BoxVals : AddBox(n, b)
    \/ \E n \in {"n1", "n2"}, k \in SinkVals : AddSink(n, k)
    \/ \E d \in held, r \in {"n1", "n2"}, l \in InputNames :
            Len(Edges) < MaxObjectEdges /\ NamedInput(d, r, l)
    \/ \E d \in held, r \in {"n1", "n2"} :
            Len(Edges) < MaxObjectEdges /\ SinkInput(d, r)
    \/ \E o \in rangeOrders(sources) : Build(o)

SpecObjects == Init /\ [][NextObjects]_vars

(***************************************************************************)
(* SpecCycle: the callers declare one source and three boxes, and then      *)
(* connect the boxes to each other and the source to the box n2, until a   *)
(* Build succeeds.                                                         *)
(***************************************************************************)
NextCycle ==
    \/ AddSource("n1", "src1")
    \/ \E n \in {"n2", "n3", "n4"} : AddBox(n, "boxNil")
    \/ \E d \in held, r \in Names :
            /\ ~builtFlag
            /\ Len(Edges) < MaxCycleEdges
            /\ DOMAIN sources \cup DOMAIN boxes = Names
            /\ r = "n1" => d.name = "n2"
            /\ NamedInput(d, r, "*")
    \/ \E o \in rangeOrders(sources) : Build(o)

SpecCycle == Init /\ [][NextCycle]_vars

(***************************************************************************)
(* SpecDag: the callers declare the sources n1 and n2 and the boxes n3 and *)
(* n4, and then connect them, the source n1 also under the input name "x", *)
(* until a Build succeeds.                                                 *)
(***************************************************************************)
NextDag ==
    \/ \E n \in {"n1", "n2"} : AddSource(n, "src1")
    \/ \E n \in {"n3", "n4"} : AddBox(n, "boxNil")
    \/ \E d \in held, r \in Names, l \in InputNames :
            /\ ~builtFlag
            /\ Len(Edges) < MaxDagEdges
            /\ DOMAIN sources \cup DOMAIN boxes = Names
            /\ l = "x" => r = "n1"
            /\ NamedInput(d, r, l)
    \/ \E o \in rangeOrders(sources) : Build(o)

SpecDag == Init /\ [][NextDag]_vars

(***************************************************************************)
(* bqlBox: Init, Process, timeEmitter and Terminate                        *)
(***************************************************************************)
\* the box after NewBQLBox and Init, with the emitter clauses of its statement;
\* removeMe is the callback the topology has put on the box, or nil
bqlBoxInit ==
    /\ \E l \in EmitterLimits, e \in EmitterSamplings, r \in BOOLEAN :
        /\ emitterLimit = l
        /\ emitterSamplingType = e[1]
        /\ emitterSampling = e[2]
        /\ removeMe = r
    /\ genCount = 0 /\ emitCount = 0
    /\ lastTuple = -1 /\ lastWriter = "nil"
    /\ stopped = FALSE
    /\ mutex = "free" /\ timeEmitterMutex = "free"
    /\ procs = [p \in ProcThreads |-> idleProc]
    /\ emitter = IF emitterSamplingType = TimeBasedSampling THEN "range" ELSE "none"
    /\ ticker = IF emitterSamplingType = TimeBasedSampling THEN "running" ELSE "none"
    /\ terminator = "idle"
    /\ seenEmitCount = 0 /\ calls = 0 /\ generated = 0
    /\ writes = <<>> /\ removed = 0
    /\ processErr = NoErr

InitBox == newBuilder /\ bqlBoxInit /\ noTuple /\ newTopologyBuilder /\ noRequest
        /\ noSelect /\ newRegistries

\* overLimit that lets one more tuple through
overLimitOffByOne(ec) == emitterLimit >= 0 /\ ec > emitterLimit

\* b.emitterLimit >= 0 && b.emitCount >= b.emitterLimit, for the value ec
\* read from emitCount
overLimit(ec) == emitterLimit >= 0 /\ ec >= emitterLimit

\* the values a read of emitCount in Process can yield: Process reads it
\* under mutex only, the timeEmitter writes it under timeEmitterMutex, so the
\* read yields any value written since a Process last held timeEmitterMutex
readEmitCount == seenEmitCount..emitCount

\* a call of Write(ctx, tup) on the writer w
WriteCall(by, w, tup, ok) == [by |-> by, w |-> w, row |-> tup, ok |-> ok]

\* rows n .. n+k-1, the rows the plan returns next
newRows(n, k) == [i \in 1..k |-> n + i - 1]

\* a goroutine calls Process(ctx, t, s) and gets past b.mutex.Lock()
ProcessLock(p, s) ==
    /\ procs[p].pc = "idle"
    /\ mutex = "free"
    /\ mutex' = p
    /\ procs' = [procs EXCEPT ![p] = [idleProc EXCEPT !.pc = "limit", !.s = s]]
    /\ calls' = calls + 1
    /\ UNCHANGED <<emitterLimit, emitterSampling, emitterSamplingType, genCount,
                   emitCount, lastTuple, lastWriter, stopped, removeMe,
                   timeEmitterMutex, emitter, ticker, terminator,
                   seenEmitCount, generated, writes, removed,
                   processErr>>
    /\ UNCHANGED outsideBQLBox

\* ProcessLimit without the early return
ProcessLimitNeverExits(p, ec) ==
    /\ procs[p].pc = "limit"
    /\ ec \in readEmitCount
    /\ procs' = [procs EXCEPT ![p] = [@ EXCEPT !.pc = "plan"]]
    /\ UNCHANGED <<emitterLimit, emitterSampling, emitterSamplingType,
                   genCount, emitCount, lastTuple, lastWriter, stopped,
                   removeMe, mutex, timeEmitterMutex, emitter, ticker,
                   terminator, seenEmitCount, calls, generated, writes,
                   removed, processErr>>
    /\ UNCHANGED outsideBQLBox

\* "if we are already over the limit, exit here"
ProcessLimit(p, ec) ==
    /\ procs[p].pc = "limit"
    /\ ec \in readEmitCount
    /\ procs' = [procs EXCEPT ![p] =
                    IF overLimit(ec) THEN idleProc ELSE [@ EXCEPT !.pc = "plan"]]
    /\ mutex' = IF overLimit(ec) THEN "free" ELSE mutex
    /\ processErr' = IF overLimit(ec) THEN NoErr ELSE processErr
    /\ UNCHANGED <<emitterLimit, emitterSampling, emitterSamplingType, 
                   genCount, emitCount, lastTuple, lastWriter, stopped, 
                   removeMe, timeEmitterMutex, emitter, ticker, terminator, 
                   seenEmitCount, calls, generated, writes, removed>>
    /\ UNCHANGED outsideBQLBox

\* ProcessPlan that returns the plan's error without unlocking mutex
ProcessPlanKeepsMutex(p, k, ok) ==
    /\ procs[p].pc = "plan"
    /\ procs' = [procs EXCEPT ![p] =
                    IF ok THEN [@ EXCEPT !.pc = "row", !.rows = newRows(generated, k)]
                    ELSE idleProc]
    /\ generated' = IF ok THEN generated + k ELSE generated
    /\ processErr' = IF ok THEN processErr ELSE <<"plan failed">>
    /\ UNCHANGED <<emitterLimit, emitterSampling, emitterSamplingType,
                   genCount, emitCount, lastTuple, lastWriter, stopped,
                   removeMe, mutex, timeEmitterMutex, emitter, ticker,
                   terminator, seenEmitCount, calls, writes, removed>>
    /\ UNCHANGED outsideBQLBox

\* "feed tuple into plan": the plan fails, or returns k rows
ProcessPlan(p, k, ok) ==
    /\ procs[p].pc = "plan"
    /\ procs' = [procs EXCEPT ![p] =
                    IF ok THEN [@ EXCEPT !.pc = "row", !.rows = newRows(generated, k)]
                    ELSE idleProc]
    /\ generated' = IF ok THEN generated + k ELSE generated
    /\ mutex' = IF ok THEN mutex ELSE "free"
    /\ processErr' = IF ok THEN processErr ELSE <<"plan failed">>
    /\ UNCHANGED <<emitterLimit, emitterSampling, emitterSamplingType, 
                   genCount, emitCount, lastTuple, lastWriter, stopped, 
                   removeMe, timeEmitterMutex, emitter, ticker, terminator, 
                   seenEmitCount, calls, writes, removed>>
    /\ UNCHANGED outsideBQLBox

\* shouldWriteTuple that looks at genCount after it was increased
shouldWriteTupleAfterIncrement(rnd) ==
    IF emitterSamplingType = CountBasedSampling THEN (genCount + 1) % emitterSampling = 0
    ELSE IF emitterSamplingType = RandomizedSampling THEN rnd < emitterSampling
    ELSE TRUE

\* "decide if we should emit a tuple for this item", rnd being rand.Int63n(100)
shouldWriteTuple(rnd) ==
    IF emitterSamplingType = CountBasedSampling THEN genCount % emitterSampling = 0
    ELSE IF emitterSamplingType = RandomizedSampling THEN rnd < emitterSampling
    ELSE TRUE

\* ProcessRow without the time-based branch: the row is written by Process
ProcessRowSkipsTimeBased(p, rnd) ==
    /\ procs[p].pc = "row"
    /\ procs' = [procs EXCEPT ![p] =
            IF procs[p].rows = <<>> THEN [@ EXCEPT !.pc = "after"]
            ELSE [@ EXCEPT !.tup = Head(procs[p].rows),
                           !.rows = Tail(procs[p].rows),
                           !.pc = IF shouldWriteTuple(rnd) THEN "write"
                                  ELSE IF overLimit(emitCount) THEN "after"
                                  ELSE "row"]]
    /\ genCount' = IF procs[p].rows # <<>> /\ emitterSamplingType = CountBasedSampling
                   THEN genCount + 1 ELSE genCount
    /\ UNCHANGED <<emitterLimit, emitterSampling, emitterSamplingType,
                   emitCount, lastTuple, lastWriter, stopped, removeMe,
                   mutex, timeEmitterMutex, emitter, ticker, terminator,
                   seenEmitCount, calls, generated, writes, removed,
                   processErr>>
    /\ UNCHANGED outsideBQLBox

\* the head of the loop over resultData, up to the Write or the Lock
ProcessRow(p, rnd) ==
    /\ procs[p].pc = "row"
    /\ procs' = [procs EXCEPT ![p] =
            IF procs[p].rows = <<>> THEN [@ EXCEPT !.pc = "after"]
            ELSE [@ EXCEPT !.tup = Head(procs[p].rows),
                           !.rows = Tail(procs[p].rows),
                           !.pc = IF emitterSamplingType = TimeBasedSampling
                                  THEN "storeLock"
                                  ELSE IF shouldWriteTuple(rnd) THEN "write"
                                  ELSE IF overLimit(emitCount) THEN "after"
                                  ELSE "row"]]
    /\ genCount' = IF procs[p].rows # <<>> /\ emitterSamplingType = CountBasedSampling
                   THEN genCount + 1 ELSE genCount
    /\ UNCHANGED <<emitterLimit, emitterSampling, emitterSamplingType, 
                   emitCount, lastTuple, lastWriter, stopped, removeMe, 
                   mutex, timeEmitterMutex, emitter, ticker, terminator, 
                   seenEmitCount, calls, generated, writes, removed,
                   processErr>>
    /\ UNCHANGED outsideBQLBox

\* b.timeEmitterMutex.Lock() of the time-based branch
ProcessStoreLock(p) ==
    /\ procs[p].pc = "storeLock"
    /\ timeEmitterMutex = "free"
    /\ timeEmitterMutex' = p
    /\ seenEmitCount' = emitCount
    /\ procs' = [procs EXCEPT ![p].pc = "store"]
    /\ UNCHANGED <<emitterLimit, emitterSampling, emitterSamplingType, 
                   genCount, emitCount, lastTuple, lastWriter, stopped, 
                   removeMe, mutex, emitter, ticker, terminator, calls, 
                   generated, writes, removed,
                   processErr>>
    /\ UNCHANGED outsideBQLBox

\* b.lastTuple = tup; b.lastWriter = s; Unlock; continue
ProcessStore(p) ==
    /\ procs[p].pc = "store"
    /\ lastTuple' = procs[p].tup
    /\ lastWriter' = procs[p].s
    /\ timeEmitterMutex' = "free"
    /\ procs' = [procs EXCEPT ![p].pc = "row"]
    /\ UNCHANGED <<emitterLimit, emitterSampling, emitterSamplingType, 
                   genCount, emitCount, stopped, removeMe, mutex, emitter, 
                   ticker, terminator, seenEmitCount, calls, generated, 
                   writes, removed,
                   processErr>>
    /\ UNCHANGED outsideBQLBox

\* ProcessWrite that goes on with the next row when Write fails
ProcessWriteGoesOn(p, ok) ==
    /\ procs[p].pc = "write"
    /\ writes' = Append(writes, WriteCall("Process", procs[p].s, procs[p].tup, ok))
    /\ emitCount' = IF ok THEN emitCount + 1 ELSE emitCount
    /\ seenEmitCount' = IF ok THEN emitCount + 1 ELSE seenEmitCount
    /\ procs' = [procs EXCEPT ![p] =
            [@ EXCEPT !.pc = IF overLimit(emitCount') THEN "after" ELSE "row"]]
    /\ UNCHANGED <<emitterLimit, emitterSampling, emitterSamplingType,
                   genCount, lastTuple, lastWriter, stopped, removeMe, mutex,
                   timeEmitterMutex, emitter, ticker, terminator, calls,
                   generated, removed, processErr>>
    /\ UNCHANGED outsideBQLBox

\* "write the tuple to the connected box" and "stop emitting if we have hit
\* the limit"; ok is whether Write returns nil
ProcessWrite(p, ok) ==
    /\ procs[p].pc = "write"
    /\ writes' = Append(writes, WriteCall("Process", procs[p].s, procs[p].tup, ok))
    /\ emitCount' = IF ok THEN emitCount + 1 ELSE emitCount
    /\ seenEmitCount' = IF ok THEN emitCount + 1 ELSE seenEmitCount
    /\ procs' = [procs EXCEPT ![p] =
            IF ~ok THEN idleProc
            ELSE [@ EXCEPT !.pc = IF overLimit(emitCount + 1) THEN "after" ELSE "row"]]
    /\ mutex' = IF ok THEN mutex ELSE "free"
    /\ processErr' = IF ok THEN processErr ELSE <<"write failed">>
    /\ UNCHANGED <<emitterLimit, emitterSampling, emitterSamplingType, 
                   genCount, lastTuple, lastWriter, stopped, removeMe, 
                   timeEmitterMutex, emitter, ticker, terminator, calls, 
                   generated, removed>>
    /\ UNCHANGED outsideBQLBox

\* "remove this box if we are over the limit"
ProcessAfter(p, ec) ==
    /\ procs[p].pc = "after"
    /\ ec \in readEmitCount
    /\ procs' = [procs EXCEPT ![p] =
                    IF overLimit(ec) THEN [@ EXCEPT !.pc = "removeLock"]
                    ELSE idleProc]
    /\ mutex' = IF overLimit(ec) THEN mutex ELSE "free"
    /\ processErr' = IF overLimit(ec) THEN processErr ELSE NoErr
    /\ UNCHANGED <<emitterLimit, emitterSampling, emitterSamplingType, 
                   genCount, emitCount, lastTuple, lastWriter, stopped, 
                   removeMe, timeEmitterMutex, emitter, ticker, terminator, 
                   seenEmitCount, calls, generated, writes, removed>>
    /\ UNCHANGED outsideBQLBox

\* b.timeEmitterMutex.Lock() before removeMe
ProcessRemoveLock(p) ==
    /\ procs[p].pc = "removeLock"
    /\ timeEmitterMutex = "free"
    /\ timeEmitterMutex' = p
    /\ seenEmitCount' = emitCount
    /\ procs' = [procs EXCEPT ![p].pc = "remove"]
    /\ UNCHANGED <<emitterLimit, emitterSampling, emitterSamplingType, 
                   genCount, emitCount, lastTuple, lastWriter, stopped, 
                   removeMe, mutex, emitter, ticker, terminator, calls, 
                   generated, writes, removed,
                   processErr>>
    /\ UNCHANGED outsideBQLBox

\* if b.removeMe != nil { b.removeMe(); b.removeMe = nil }; Unlock; return nil
ProcessRemove(p) ==
    /\ procs[p].pc = "remove"
    /\ removed' = IF removeMe THEN removed + 1 ELSE removed
    /\ removeMe' = FALSE
    /\ timeEmitterMutex' = "free"
    /\ mutex' = "free"
    /\ procs' = [procs EXCEPT ![p] = idleProc]
    /\ processErr' = NoErr
    /\ UNCHANGED <<emitterLimit, emitterSampling, emitterSamplingType, 
                   genCount, emitCount, lastTuple, lastWriter, stopped, 
                   emitter, ticker, terminator, seenEmitCount, calls, 
                   generated, writes>>
    /\ UNCHANGED outsideBQLBox

\* the timeEmitter receives a tick from ticker.C and gets past
\* b.timeEmitterMutex.Lock(); a stopped ticker delivers no more than the tick
\* its channel buffered
TimeEmitterLock ==
    /\ emitter = "range"
    /\ ticker \in {"running", "stoppedWithTick"}
    /\ timeEmitterMutex = "free"
    /\ ticker' = IF ticker = "stoppedWithTick" THEN "stopped" ELSE ticker
    /\ timeEmitterMutex' = "timeEmitter"
    /\ emitter' = "locked"
    /\ UNCHANGED <<emitterLimit, emitterSampling, emitterSamplingType, genCount,
                   emitCount, lastTuple, lastWriter, stopped, removeMe, mutex,
                   procs, terminator, seenEmitCount, calls, generated, writes,
                   removed,
                   processErr>>
    /\ UNCHANGED outsideBQLBox

\* TimeEmitterTick without the test of b.stopped
TimeEmitterTickIgnoresStopped(buffered) ==
    /\ emitter = "locked"
    /\ emitter' = IF lastTuple # -1 /\ lastWriter # "nil" THEN "Write" ELSE "range"
    /\ timeEmitterMutex' = IF lastTuple # -1 /\ lastWriter # "nil"
                           THEN timeEmitterMutex ELSE "free"
    /\ UNCHANGED <<emitterLimit, emitterSampling, emitterSamplingType,
                   genCount, emitCount, lastTuple, lastWriter, stopped,
                   removeMe, mutex, procs, ticker, terminator, seenEmitCount,
                   calls, generated, writes, removed, processErr>>
    /\ UNCHANGED outsideBQLBox

\* the tick under the mutex, up to the Write: "if b.stopped" stops the ticker
\* (buffered: a tick is left in its channel) and goes on ranging
TimeEmitterTick(buffered) ==
    /\ emitter = "locked"
    /\ emitter' = IF ~stopped /\ lastTuple # -1 /\ lastWriter # "nil"
                  THEN "Write" ELSE "range"
    /\ timeEmitterMutex' = IF ~stopped /\ lastTuple # -1 /\ lastWriter # "nil"
                           THEN timeEmitterMutex ELSE "free"
    /\ ticker' = IF stopped /\ ticker = "running"
                 THEN (IF buffered THEN "stoppedWithTick" ELSE "stopped")
                 ELSE ticker
    /\ UNCHANGED <<emitterLimit, emitterSampling, emitterSamplingType, 
                   genCount, emitCount, lastTuple, lastWriter, stopped, 
                   removeMe, mutex, procs, terminator, seenEmitCount, calls, 
                   generated, writes, removed,
                   processErr>>
    /\ UNCHANGED outsideBQLBox

\* TimeEmitterWrite that leaves the written tuple in lastTuple
TimeEmitterWriteKeepsLastTuple(ok) ==
    /\ emitter = "Write"
    /\ writes' = Append(writes, WriteCall("timeEmitter", lastWriter, lastTuple, ok))
    /\ emitCount' = emitCount + 1
    /\ stopped' = IF overLimit(emitCount + 1) THEN TRUE ELSE stopped
    /\ removed' = IF overLimit(emitCount + 1) /\ removeMe THEN removed + 1 ELSE removed
    /\ removeMe' = IF overLimit(emitCount + 1) THEN FALSE ELSE removeMe
    /\ timeEmitterMutex' = "free"
    /\ emitter' = "range"
    /\ UNCHANGED <<emitterLimit, emitterSampling, emitterSamplingType,
                   genCount, lastTuple, lastWriter, mutex, procs, ticker,
                   terminator, seenEmitCount, calls, generated, processErr>>
    /\ UNCHANGED outsideBQLBox

\* TimeEmitterWrite that leaves removeMe set after calling it
TimeEmitterWriteKeepsRemoveMe(ok) ==
    /\ emitter = "Write"
    /\ writes' = Append(writes, WriteCall("timeEmitter", lastWriter, lastTuple, ok))
    /\ lastTuple' = -1
    /\ emitCount' = emitCount + 1
    /\ stopped' = IF overLimit(emitCount + 1) THEN TRUE ELSE stopped
    /\ removed' = IF overLimit(emitCount + 1) /\ removeMe THEN removed + 1 ELSE removed
    /\ timeEmitterMutex' = "free"
    /\ emitter' = "range"
    /\ UNCHANGED <<emitterLimit, emitterSampling, emitterSamplingType,
                   genCount, lastWriter, removeMe, mutex, procs, ticker,
                   terminator, seenEmitCount, calls, generated, processErr>>
    /\ UNCHANGED outsideBQLBox

\* b.lastWriter.Write(ctx, b.lastTuple) and what follows it under the mutex;
\* ok is whether Write returns nil (an error is logged only)
TimeEmitterWrite(ok) ==
    /\ emitter = "Write"
    /\ writes' = Append(writes, WriteCall("timeEmitter", lastWriter, lastTuple, ok))
    /\ lastTuple' = -1
    /\ emitCount' = emitCount + 1
    /\ stopped' = IF overLimit(emitCount + 1) THEN TRUE ELSE stopped
    /\ removed' = IF overLimit(emitCount + 1) /\ removeMe THEN removed + 1 ELSE removed
    /\ removeMe' = IF overLimit(emitCount + 1) THEN FALSE ELSE removeMe
    /\ timeEmitterMutex' = "free"
    /\ emitter' = "range"
    /\ UNCHANGED <<emitterLimit, emitterSampling, emitterSamplingType, 
                   genCount, lastWriter, mutex, procs, ticker, terminator, 
                   seenEmitCount, calls, generated,
                   processErr>>
    /\ UNCHANGED outsideBQLBox

\* a goroutine calls Terminate(ctx) and gets past b.timeEmitterMutex.Lock()
TerminateLock ==
    /\ terminator \in {"idle", "returned"}
    /\ timeEmitterMutex = "free"
    /\ timeEmitterMutex' = "Terminate"
    /\ terminator' = "locked"
    /\ UNCHANGED <<emitterLimit, emitterSampling, emitterSamplingType, genCount,
                   emitCount, lastTuple, lastWriter, stopped, removeMe, mutex,
                   procs, emitter, ticker, seenEmitCount, calls, generated,
                   writes, removed,
                   processErr>>
    /\ UNCHANGED outsideBQLBox

\* b.stopped = true; Unlock; return nil
TerminateStop ==
    /\ terminator = "locked"
    /\ stopped' = TRUE
    /\ timeEmitterMutex' = "free"
    /\ terminator' = "returned"
    /\ UNCHANGED <<emitterLimit, emitterSampling, emitterSamplingType, 
                   genCount, emitCount, lastTuple, lastWriter, removeMe, 
                   mutex, procs, emitter, ticker, seenEmitCount, calls, 
                   generated, writes, removed,
                   processErr>>
    /\ UNCHANGED outsideBQLBox

\* the values of rand.Int63n(100) the model draws
RandValues == {0, 99}

(***************************************************************************)
(* SpecBox: goroutines call Process and Terminate on a bqlBox while its    *)
(* timeEmitter runs.                                                       *)
(***************************************************************************)
NextBox ==
    \/ \E p \in ProcThreads, s \in Writers : calls < MaxCalls /\ ProcessLock(p, s)
    \/ \E p \in ProcThreads, ec \in readEmitCount : ProcessLimit(p, ec)
    \/ \E p \in ProcThreads, k \in 0..(MaxRows - generated), ok \in BOOLEAN :
            ProcessPlan(p, k, ok)
    \/ \E p \in ProcThreads, rnd \in RandValues : ProcessRow(p, rnd)
    \/ \E p \in ProcThreads : ProcessStoreLock(p)
    \/ \E p \in ProcThreads : ProcessStore(p)
    \/ \E p \in ProcThreads, ok \in BOOLEAN : ProcessWrite(p, ok)
    \/ \E p \in ProcThreads, ec \in readEmitCount : ProcessAfter(p, ec)
    \/ \E p \in ProcThreads : ProcessRemoveLock(p)
    \/ \E p \in ProcThreads : ProcessRemove(p)
    \/ TimeEmitterLock
    \/ \E buffered \in BOOLEAN : TimeEmitterTick(buffered)
    \/ \E ok \in BOOLEAN : TimeEmitterWrite(ok)
    \/ TerminateLock
    \/ TerminateStop

SpecBox == InitBox /\ [][NextBox]_vars

(***************************************************************************)
(* SpecBoxFair: SpecBox under the Go scheduler, which runs every goroutine *)
(* that can take a step: a Process call that holds mutex runs on to its    *)
(* return, Terminate runs on to its return, and the timeEmitter takes each *)
(* tick its ticker delivers once timeEmitterMutex is free.                 *)
(***************************************************************************)
FairBox ==
    /\ \A p \in ProcThreads :
        /\ WF_vars(\E ec \in readEmitCount : ProcessLimit(p, ec))
        /\ WF_vars(\E k \in 0..(MaxRows - generated), ok \in BOOLEAN :
                        ProcessPlan(p, k, ok))
        /\ WF_vars(\E rnd \in RandValues : ProcessRow(p, rnd))
        /\ WF_vars(ProcessStoreLock(p))
        /\ WF_vars(ProcessStore(p))
        /\ WF_vars(\E ok \in BOOLEAN : ProcessWrite(p, ok))
        /\ WF_vars(\E ec \in readEmitCount : ProcessAfter(p, ec))
        /\ WF_vars(ProcessRemoveLock(p))
        /\ WF_vars(ProcessRemove(p))
    /\ WF_vars(TimeEmitterLock)
    /\ WF_vars(\E buffered \in BOOLEAN : TimeEmitterTick(buffered))
    /\ WF_vars(\E ok \in BOOLEAN : TimeEmitterWrite(ok))
    /\ WF_vars(TerminateStop)

SpecBoxFair == InitBox /\ [][NextBox]_vars /\ FairBox

(***************************************************************************)
(* The tuples Process makes of the rows of one input tuple. A slice is an  *)
(* array and a length; arrays[a] is the backing array a up to its          *)
(* capacity.                                                               *)
(***************************************************************************)
\* the rows the plan returns for one input tuple
MaxResultRows == 2
\* the trace events the nodes downstream append to the tuples
MaxEvents == 2

TraceEvents == {"INPUT", "OUTPUT"}

\* the unused part of a backing array
Spare(n) == [i \in 1..n |-> "spare"]

\* the Trace slices an input tuple arrives with: nil, or a slice of up to two
\* events whose array has room for zero or one more
InTraces ==
    {<<>>} \cup
    {<<e>> : e \in TraceEvents} \cup
    {<<"INPUT", e>> : e \in TraceEvents}

\* Timestamp, ProcTimestamp and BatchID of the input tuples
InHeaders == {<<1, 2, 0>>, <<2, 1, 7>>}

\* len(s), cap(s) and the elements of the slice s
SliceLen(s) == s.len
SliceCap(s) == IF s.arr = 0 THEN 0 ELSE Len(arrays[s.arr])
Elements(s) == IF s.arr = 0 THEN <<>> ELSE SubSeq(arrays[s.arr], 1, s.len)

\* Process is called with the tuple t, and the plan returns resultData
tupleInit ==
    /\ \E h \in InHeaders, tr \in InTraces, room \in 0..1, n \in 0..MaxResultRows :
        /\ arrays = IF tr = <<>> /\ room = 0 THEN <<>> ELSE <<tr \o Spare(room)>>
        /\ t = [Timestamp |-> h[1], ProcTimestamp |-> h[2], BatchID |-> h[3],
                Trace |-> IF tr = <<>> /\ room = 0 THEN nilSlice
                          ELSE [arr |-> 1, len |-> Len(tr)]]
        /\ resultData = [i \in 1..n |-> 10 + i]
    /\ tups = <<>>

InitTuple == newBuilder /\ noBQLBox /\ tupleInit /\ newTopologyBuilder /\ noRequest
        /\ noSelect /\ newRegistries

\* what the making of tuples leaves alone
outsideTuple == <<builderVars, bqlBoxVars, stmtVars, serverVars, selectVars,
        registryVars>>

\* the tuple of the row data whose Trace is the slice tr
Tuple(data, tr) ==
    [Data |-> data, Timestamp |-> t.Timestamp,
     ProcTimestamp |-> t.ProcTimestamp, BatchID |-> t.BatchID, Trace |-> tr]

\* NewTuple that hands t.Trace itself to the new tuple
NewTupleSharesTrace ==
    /\ Len(tups) < Len(resultData)
    /\ tups' = Append(tups, Tuple(resultData[Len(tups) + 1], t.Trace))
    /\ UNCHANGED <<t, resultData, arrays>>
    /\ UNCHANGED outsideTuple

\* one turn of "for _, data := range resultData": tup := &core.Tuple{...},
\* and a Trace made and copied if len(t.Trace) != 0
NewTuple ==
    /\ Len(tups) < Len(resultData)
    /\ IF SliceLen(t.Trace) # 0
       THEN /\ arrays' = Append(arrays, Elements(t.Trace))
            /\ tups' = Append(tups, Tuple(resultData[Len(tups) + 1],
                                          [arr |-> Len(arrays) + 1,
                                           len |-> SliceLen(t.Trace)]))
       ELSE /\ arrays' = arrays
            /\ tups' = Append(tups, Tuple(resultData[Len(tups) + 1], nilSlice))
    /\ UNCHANGED <<t, resultData>>
    /\ UNCHANGED outsideTuple

\* tups[i].Trace = append(tups[i].Trace, ev): in place if the array has
\* room, else into a new array with room for grow more events
AddEvent(i, ev, grow) ==
    /\ i \in 1..Len(tups)
    /\ LET s == tups[i].Trace
       IN  IF SliceLen(s) < SliceCap(s)
           THEN /\ arrays' = [arrays EXCEPT ![s.arr][s.len + 1] = ev]
                /\ tups' = [tups EXCEPT ![i].Trace.len = s.len + 1]
           ELSE /\ arrays' = Append(arrays, Elements(s) \o <<ev>> \o Spare(grow))
                /\ tups' = [tups EXCEPT ![i].Trace =
                                [arr |-> Len(arrays) + 1, len |-> s.len + 1]]
    /\ UNCHANGED <<t, resultData>>
    /\ UNCHANGED outsideTuple

(***************************************************************************)
(* SpecTuple: Process makes the tuples of one input tuple, and the nodes   *)
(* downstream append trace events to the tuples they received.             *)
(***************************************************************************)
RECURSIVE Appended(_)
\* the events appended so far to the tuples 1 .. i
Appended(i) ==
    IF i = 0 THEN 0
    ELSE Appended(i - 1) + SliceLen(tups[i].Trace) - SliceLen(t.Trace)

NextTuple ==
    \/ NewTuple
    \/ \E i \in 1..Len(tups), ev \in TraceEvents, grow \in 0..1 :
            Appended(Len(tups)) < MaxEvents /\ AddEvent(i, ev, grow)

SpecTuple == InitTuple /\ [][NextTuple]_vars

(***************************************************************************)
(* The DynamicTopology behind a bql TopologyBuilder: its operations as the *)
(* builder uses them. Each takes a topology and returns the topology after *)
(* the call and the error of the call.                                     *)
(***************************************************************************)
\* what the making of nodes from statements leaves alone
outsideStmt == <<builderVars, bqlBoxVars, tupleVars, serverVars, selectVars,
        registryVars>>

\* the result of a call on the topology
DynResult(top, err) == [top |-> top, err |-> err]

\* AddSource, AddBox, AddSink: the name must be free, and a box's Init (ok)
\* must succeed
dynAdd(top, name, kind, ok) ==
    IF name \in DOMAIN top.nodes
    THEN DynResult(top, <<"the name is already used", name>>)
    ELSE IF ~ok
    THEN DynResult(top, <<"the node cannot be initialized", name>>)
    ELSE DynResult([top EXCEPT !.nodes = MapSet(top.nodes, name, kind)], NoErr)

RECURSIVE dynReach(_, _, _)
\* the nodes reached from the nodes in from, in at most n more steps
dynReach(top, from, n) ==
    IF n = 0 THEN from
    ELSE dynReach(top, from \cup {e.To : e \in {d \in top.edges : d.From \in from}},
                  n - 1)

\* Topology.Sink(name): the sink of that name, or an error
dynSink(top, name) ==
    IF name \in DOMAIN top.nodes /\ top.nodes[name] = "sink"
    THEN NoErr
    ELSE <<"the sink was not found", name>>

\* <node>.Input(ref, cfg) on the node to: ref must be a source or a box that
\* is not yet an input of the node, the edge must not close a cycle, and the
\* node must be able to take an input (ok)
dynInput(top, to, ref, label, ok) ==
    IF ~(ref \in DOMAIN top.nodes /\ top.nodes[ref] \in {"source", "box"})
    THEN DynResult(top, <<"the node was not found", ref>>)
    ELSE IF \E e \in top.edges : e.From = ref /\ e.To = to
    THEN DynResult(top, <<"the node is already an input", ref>>)
    ELSE IF ref \in dynReach(top, {to}, Cardinality(DOMAIN top.nodes))
    THEN DynResult(top, <<"the topology has a cycle", ref>>)
    ELSE IF ~ok
    THEN DynResult(top, <<"the node is stopped", to>>)
    ELSE DynResult([top EXCEPT !.edges =
                        @ \cup {[From |-> ref, To |-> to, InputName |-> label]}],
                   NoErr)

\* Remove(name): the node and its edges go; nothing changes if it is absent
dynRemove(top, name) ==
    [nodes |-> [n \in DOMAIN top.nodes \ {name} |-> top.nodes[n]],
     edges |-> {e \in top.edges : e.From # name /\ e.To # name}]

(***************************************************************************)
(* TopologyBuilder.AddStmt                                                 *)
(***************************************************************************)
\* the temporary names AddStmt may take
MaxTemporaryID == 2

UnspecifiedIntervalUnit == "UnspecifiedIntervalUnit"
Tuples == "Tuples"
UnspecifiedEmitter == "UnspecifiedEmitter"
Rstream == "RSTREAM"

\* the types the creator registries of the builder know
RegisteredTypes == {"dummy"}

\* a statement; a field its type does not have is "nil" or empty
Stmt(type, name, typ, rels, emitterType, sink) ==
    [type |-> type, Name |-> name, Type |-> typ, Relations |-> rels,
     EmitterType |-> emitterType, Sink |-> sink]

\* a relation of a FROM clause with its window [RANGE value unit]
Relation(name, value, unit) == [Name |-> name, Value |-> value, Unit |-> unit]

\* what AddStmt has worked out when it returns
StmtResult(top, states, id, node, err, log) ==
    [top |-> top, states |-> states, id |-> id, node |-> node, err |-> err,
     log |-> log]

\* fmt.Sprintf("sensorbee_tmp_%v", id)
tmpName(id) == "sensorbee_tmp_" \o ToString(id)

\* Lookup of a creator and the creation by it (ok)
createErr(typ, ok) ==
    IF typ \notin RegisteredTypes THEN <<"the type is not registered", typ>>
    ELSE IF ~ok THEN <<"the creator failed", typ>>
    ELSE NoErr

RECURSIVE streamInputs(_, _, _, _)
\* "for _, rel := range stmt.Relations": dbox.Input(rel.Name, ...) up to the
\* first error
streamInputs(top, log, name, rels) ==
    IF rels = <<>> THEN [top |-> top, err |-> NoErr, log |-> log]
    ELSE LET i == dynInput(top, name, Head(rels).Name, Head(rels).Name, TRUE)
             l == Append(log, <<"Input", name, Head(rels).Name>>)
         IN  IF i.err # NoErr THEN [top |-> top, err |-> i.err, log |-> l]
             ELSE streamInputs(i.top, l, name, Tail(rels))

\* createStream that leaves the box in the topology when an Input fails
createStreamLeavesBox(top, states, id, stmt, initOk) ==
    LET a == dynAdd(top, stmt.Name, "box", initOk)
        l == <<<<"AddBox", stmt.Name, stmt>>>>
    IN  IF a.err # NoErr THEN StmtResult(top, states, id, "nil", a.err, l)
        ELSE LET i == streamInputs(a.top, l, stmt.Name, stmt.Relations)
             IN  IF i.err # NoErr
                 THEN StmtResult(i.top, states, id, "nil", i.err, i.log)
                 ELSE StmtResult(i.top, states, id, stmt.Name, NoErr,
                                 Append(i.log, <<"StopOnDisconnect", stmt.Name>>))

\* case parser.CreateStreamAsSelectStmt
createStream(top, states, id, stmt, initOk) ==
    LET a == dynAdd(top, stmt.Name, "box", initOk)
        l == <<<<"AddBox", stmt.Name, stmt>>>>
    IN  IF a.err # NoErr THEN StmtResult(top, states, id, "nil", a.err, l)
        ELSE LET i == streamInputs(a.top, l, stmt.Name, stmt.Relations)
             IN  IF i.err # NoErr
                 THEN StmtResult(dynRemove(i.top, stmt.Name), states, id, "nil",
                                 i.err, Append(i.log, <<"Remove", stmt.Name>>))
                 ELSE StmtResult(i.top, states, id, stmt.Name, NoErr,
                                 Append(i.log, <<"StopOnDisconnect", stmt.Name>>))

\* tmpStmt that leaves the relations without a window
tmpStmtKeepsRelations(name, stmt) ==
    Stmt("CreateStreamAsSelectStmt", name, "nil", stmt.Relations, Rstream, "nil")

\* the statement INSERT INTO is turned into: CREATE STREAM tmpName AS SELECT
\* RSTREAM ... FROM the relations [RANGE 1 TUPLES]
tmpStmt(name, stmt) ==
    Stmt("CreateStreamAsSelectStmt", name, "nil",
         [i \in 1..Len(stmt.Relations) |-> Relation(stmt.Relations[i].Name, 1, Tuples)],
         Rstream, "nil")

\* the clauses INSERT INTO does not take
rangeErr == <<"you cannot use a RANGE clause with an INSERT INTO statement at the moment">>
emitterErr(emitterType) ==
    <<"you cannot use a clause with an INSERT INTO statement at the moment", emitterType>>

\* insertInto that looks at the RANGE and emitter clauses only after it has
\* added the temporary box
insertIntoChecksClausesLate(top, states, id, stmt, initOk, inputOk) ==
    IF dynSink(top, stmt.Sink) # NoErr
    THEN StmtResult(top, states, id, "nil", dynSink(top, stmt.Sink), <<>>)
    ELSE LET b == createStream(top, states, id + 1, tmpStmt(tmpName(id + 1), stmt), initOk)
             i == dynInput(b.top, stmt.Sink, tmpName(id + 1), "output", inputOk)
             l == b.log \o <<<<"StopOnDisconnect", tmpName(id + 1)>>,
                             <<"Input", stmt.Sink, tmpName(id + 1)>>>>
         IN  IF b.err # NoErr THEN b
             ELSE IF \E r \in 1..Len(stmt.Relations) :
                        stmt.Relations[r].Unit # UnspecifiedIntervalUnit
             THEN StmtResult(b.top, states, id + 1, "nil", rangeErr, b.log)
             ELSE IF stmt.EmitterType # UnspecifiedEmitter
             THEN StmtResult(b.top, states, id + 1, "nil", emitterErr(stmt.EmitterType), b.log)
             ELSE IF i.err # NoErr
             THEN StmtResult(dynRemove(b.top, tmpName(id + 1)), states, id + 1, "nil",
                             i.err, Append(l, <<"Remove", tmpName(id + 1)>>))
             ELSE StmtResult(i.top, states, id + 1, tmpName(id + 1), NoErr, l)

\* case parser.InsertIntoSelectStmt
insertInto(top, states, id, stmt, initOk, inputOk) ==
    IF dynSink(top, stmt.Sink) # NoErr
    THEN StmtResult(top, states, id, "nil", dynSink(top, stmt.Sink), <<>>)
    ELSE IF \E r \in 1..Len(stmt.Relations) :
                stmt.Relations[r].Unit # UnspecifiedIntervalUnit
    THEN StmtResult(top, states, id + 1, "nil", rangeErr, <<>>)
    ELSE IF stmt.EmitterType # UnspecifiedEmitter
    THEN StmtResult(top, states, id + 1, "nil", emitterErr(stmt.EmitterType), <<>>)
    ELSE LET b == createStream(top, states, id + 1, tmpStmt(tmpName(id + 1), stmt), initOk)
             i == dynInput(b.top, stmt.Sink, tmpName(id + 1), "output", inputOk)
             l == b.log \o <<<<"StopOnDisconnect", tmpName(id + 1)>>,
                             <<"Input", stmt.Sink, tmpName(id + 1)>>>>
         IN  IF b.err # NoErr THEN b
             ELSE IF i.err # NoErr
             THEN StmtResult(dynRemove(b.top, tmpName(id + 1)), states, id + 1, "nil",
                             i.err, Append(l, <<"Remove", tmpName(id + 1)>>))
             ELSE StmtResult(i.top, states, id + 1, tmpName(id + 1), NoErr, l)

\* cases parser.CreateSourceStmt and parser.CreateSinkStmt
createNode(top, states, id, stmt, kind, createOk) ==
    LET a == dynAdd(top, stmt.Name, kind, TRUE)
        l == <<<<IF kind = "source" THEN "AddSource" ELSE "AddSink", stmt.Name>>>>
    IN  IF createErr(stmt.Type, createOk) # NoErr
        THEN StmtResult(top, states, id, "nil", createErr(stmt.Type, createOk), <<>>)
        ELSE StmtResult(a.top, states, id,
                        IF a.err = NoErr THEN stmt.Name ELSE "nil", a.err, l)

\* case parser.CreateStateStmt: the state is added to ctx.SharedStates and
\* no node is returned
createState(top, states, id, stmt, createOk) ==
    IF createErr(stmt.Type, createOk) # NoErr
    THEN StmtResult(top, states, id, "nil", createErr(stmt.Type, createOk), <<>>)
    ELSE IF stmt.Name \in states
    THEN StmtResult(top, states, id, "nil", <<"the state already exists", stmt.Name>>, <<>>)
    ELSE StmtResult(top, states \cup {stmt.Name}, id, "nil", NoErr, <<>>)

\* the switch over the type of the statement
addStmt(top, states, id, stmt, createOk, initOk, inputOk) ==
    CASE stmt.type = "CreateSourceStmt" -> createNode(top, states, id, stmt, "source", createOk)
      [] stmt.type = "CreateStreamAsSelectStmt" -> createStream(top, states, id, stmt, initOk)
      [] stmt.type = "CreateSinkStmt" -> createNode(top, states, id, stmt, "sink", createOk)
      [] stmt.type = "CreateStateStmt" -> createState(top, states, id, stmt, createOk)
      [] stmt.type = "InsertIntoSelectStmt" ->
            insertInto(top, states, id, stmt, initOk, inputOk)
      [] OTHER -> StmtResult(top, states, id, "nil",
                             <<"statement of this type is unimplemented", stmt.type>>, <<>>)

\* tb.AddStmt(stmt); createOk, initOk and inputOk are whether the creator,
\* the Init of the box and the Input on the sink succeed
AddStmt(stmt, createOk, initOk, inputOk) ==
    LET r == addStmt(topology, sharedStates, topologyBuilderTemporaryID, stmt,
                     createOk, initOk, inputOk)
    IN  /\ topology' = r.top
        /\ sharedStates' = r.states
        /\ topologyBuilderTemporaryID' = r.id
        /\ stmtRet' = StmtCall(stmt, r.node, r.err, r.log)
        /\ UNCHANGED outsideStmt

(***************************************************************************)
(* SpecStmt: statements are added to an empty topology through one bql     *)
(* TopologyBuilder.                                                        *)
(***************************************************************************)
\* the sequences of one or two elements of S
UpToTwo(S) == {<<a>> : a \in S} \cup {<<a, b>> : a \in S, b \in S}

\* the FROM clauses of the CREATE STREAM statements: every relation has a
\* RANGE clause; "zz" is never the name of a node
StreamRelations == UpToTwo({Relation(n, 2, Tuples) : n \in {"s", "q", "zz"}})

\* the FROM clauses of the INSERT INTO statements, with and without RANGE
InsertRelations ==
    {<<Relation("s", IF u = Tuples THEN 2 ELSE 0, u)>> :
        u \in {UnspecifiedIntervalUnit, Tuples}} \cup
    {<<Relation("s", 0, UnspecifiedIntervalUnit),
       Relation("q", IF u = Tuples THEN 2 ELSE 0, u)>> :
        u \in {UnspecifiedIntervalUnit, Tuples}}

\* the statements the callers add
Stmts ==
    {Stmt("CreateSourceStmt", n, ty, <<>>, "nil", "nil") :
        n \in {"s"}, ty \in {"dummy", "unknown"}} \cup
    {Stmt("CreateSinkStmt", n, ty, <<>>, "nil", "nil") :
        n \in {"k", "s"}, ty \in {"dummy", "unknown"}} \cup
    {Stmt("CreateStateStmt", n, ty, <<>>, "nil", "nil") :
        n \in {"state"}, ty \in {"dummy", "unknown"}} \cup
    {Stmt("CreateStreamAsSelectStmt", n, "nil", rels, em, "nil") :
        n \in {"q", "sensorbee_tmp_2"}, rels \in StreamRelations,
        em \in {UnspecifiedEmitter}} \cup
    {Stmt("InsertIntoSelectStmt", "nil", "nil", rels, em, k) :
        rels \in InsertRelations, em \in {UnspecifiedEmitter, Rstream},
        k \in {"k", "q"}} \cup
    {Stmt("SelectStmt", "nil", "nil", <<>>, "nil", "nil")}

\* the statements of one type
StmtsOf(types) == {stmt \in Stmts : stmt.type \in types}

NextStmt ==
    \/ \E stmt \in StmtsOf({"CreateSourceStmt", "CreateSinkStmt", "CreateStateStmt"}),
          createOk \in BOOLEAN :
            AddStmt(stmt, createOk, TRUE, TRUE)
    \/ \E stmt \in StmtsOf({"CreateStreamAsSelectStmt"}), initOk \in BOOLEAN :
            AddStmt(stmt, TRUE, initOk, TRUE)
    \/ \E stmt \in StmtsOf({"InsertIntoSelectStmt"}),
          initOk \in BOOLEAN, inputOk \in BOOLEAN :
            /\ topologyBuilderTemporaryID < MaxTemporaryID
            /\ AddStmt(stmt, TRUE, initOk, inputOk)
    \/ \E stmt \in StmtsOf({"SelectStmt"}) : AddStmt(stmt, TRUE, TRUE, TRUE)

InitStmt == newBuilder /\ noBQLBox /\ noTuple /\ newTopologyBuilder /\ noRequest
        /\ noSelect /\ newRegistries

SpecStmt == InitStmt /\ [][NextStmt]_vars

(***************************************************************************)
(* The Queries and WebSocketQueries actions of the server: the statements  *)
(* of a request are parsed and added to the topology one after another.    *)
(***************************************************************************)
\* the statements one request carries at most
MaxStmts == 3

\* what the handling of a request leaves alone
outsideServer == <<builderVars, bqlBoxVars, tupleVars, stmtRet, selectVars,
        registryVars>>

formValidationErrorCode == "formValidationErrorCode"
bqlStmtParseErrorCode == "bqlStmtParseErrorCode"
bqlStmtProcessingErrorCode == "bqlStmtProcessingErrorCode"

\* a response: an error made by NewError with the statement in its Meta, or
\* the JSON of a request that went through
Response(type, code, message, statement, queries) ==
    [type |-> type, code |-> code, message |-> message,
     statement |-> statement, queries |-> queries]

Error(code, message, statement) == Response("error", code, message, statement, <<>>)

\* RenderJSON of Queries lists the statements; WebSocketQueries sends {}
Running(ws, stmts) ==
    Response("running", "nil", "nil", <<>>, IF ws THEN <<>> ELSE stmts)

\* a part of the queries string that bp.ParseStmt cannot parse
Unparsable == Stmt("unparsable", "nil", "nil", <<>>, "nil", "nil")

\* the statements that return data
DataReturningStmts == {"SelectStmt", "SelectUnionStmt", "EvalStmt"}

ParseResult(stmts, index, errs) ==
    [stmts |-> stmts, dataReturningStmtIndex |-> index, errs |-> errs]

RECURSIVE parseLoop(_, _, _)
\* "for queries != """: the next statement is parsed off the string; the
\* index of the last data-returning statement is kept
parseLoop(queries, stmts, dataReturningStmtIndex) ==
    IF queries = <<>> THEN ParseResult(stmts, dataReturningStmtIndex, <<>>)
    ELSE IF Head(queries) = Unparsable
    THEN ParseResult(<<>>, -1,
            <<Error(bqlStmtParseErrorCode, "Cannot parse a BQL statement", queries)>>)
    ELSE parseLoop(Tail(queries), Append(stmts, Head(queries)),
                   IF Head(queries).type \in DataReturningStmts
                   THEN Len(stmts) ELSE dataReturningStmtIndex)

\* parseQueries that lets a data-returning statement pass among others
parseQueriesAdmitsMixed(form) ==
    IF ~form.has
    THEN ParseResult(<<>>, -1,
            <<Error(formValidationErrorCode, "'queries' field is missing", <<>>)>>)
    ELSE IF ~form.isString
    THEN ParseResult(<<>>, -1,
            <<Error(formValidationErrorCode, "'queries' field must be a string", <<>>)>>)
    ELSE parseLoop(form.queries, <<>>, -1)

\* tc.parseQueries(form)
parseQueries(form) ==
    IF ~form.has
    THEN ParseResult(<<>>, -1,
            <<Error(formValidationErrorCode, "'queries' field is missing", <<>>)>>)
    ELSE IF ~form.isString
    THEN ParseResult(<<>>, -1,
            <<Error(formValidationErrorCode, "'queries' field must be a string", <<>>)>>)
    ELSE LET p == parseLoop(form.queries, <<>>, -1)
         IN  IF p.errs = <<>> /\ p.dataReturningStmtIndex >= 0 /\ Len(p.stmts) # 1
             THEN ParseResult(<<>>, -1,
                    <<Error(bqlStmtProcessingErrorCode, "Cannot process a statement",
                            <<p.stmts[p.dataReturningStmtIndex + 1]>>)>>)
             ELSE p

\* what the actions check of a request before they parse its queries: the
\* body is JSON, a map, and for a WebSocket request has an integer "rid" and
\* a map "payload"
bodyErr(ws, fault) ==
    CASE fault = "json" ->
            <<Error(IF ws THEN bqlStmtParseErrorCode ELSE "apiErr",
                    "Cannot read or parse a JSON body", <<>>)>>
      [] fault = "form" ->
            <<Error(formValidationErrorCode,
                    "The request json may contain invalid values.", <<>>)>>
      [] ws /\ fault \in {"rid", "payload"} ->
            <<Error(formValidationErrorCode, "The request body is invalid.", <<>>)>>
      [] OTHER -> <<>>

\* the handler a request of one data-returning statement goes to
handlerOf(ws, stmt) ==
    "handle" \o stmt.type \o (IF ws THEN "WebSocket" ELSE "")

\* the request and its responses when the action returns
Returned(ws, queries, stmts, handler, rs) ==
    /\ request' = [pc |-> "done", ws |-> ws, queries |-> queries,
                   stmts |-> stmts, i |-> 0, handler |-> handler]
    /\ responses' = rs

\* Queries (ws = FALSE) and WebSocketQueries (ws = TRUE) up to their loop
\* over the statements
Queries(ws, fault, form) ==
    /\ request.pc = "idle"
    /\ addStmtCalls' = <<>>
    /\ LET p == parseQueries(form)
       IN  IF bodyErr(ws, fault) # <<>>
           THEN Returned(ws, <<>>, <<>>, "nil", bodyErr(ws, fault))
           ELSE IF p.errs # <<>>
           THEN Returned(ws, form.queries, <<>>, "nil", p.errs)
           ELSE IF Len(p.stmts) = 0
           THEN Returned(ws, form.queries, <<>>, "nil", <<Running(ws, <<>>)>>)
           ELSE IF Len(p.stmts) = 1 /\ p.stmts[1].type \in DataReturningStmts
           THEN Returned(ws, form.queries, p.stmts, handlerOf(ws, p.stmts[1]), <<>>)
           ELSE /\ request' = [pc |-> "loop", ws |-> ws, queries |-> form.queries,
                               stmts |-> p.stmts, i |-> 1, handler |-> "nil"]
                /\ responses' = <<>>
    /\ UNCHANGED <<topology, sharedStates, topologyBuilderTemporaryID>>
    /\ UNCHANGED outsideServer

\* the loop that goes on with the next statement after a failed AddStmt
QueriesAddStmtGoesOn(createOk, initOk, inputOk) ==
    /\ request.pc = "loop"
    /\ LET stmt == request.stmts[request.i]
           r == addStmt(topology, sharedStates, topologyBuilderTemporaryID, stmt,
                        createOk, initOk, inputOk)
       IN  /\ topology' = r.top
           /\ sharedStates' = r.states
           /\ topologyBuilderTemporaryID' = r.id
           /\ addStmtCalls' = Append(addStmtCalls, [stmt |-> stmt, err |-> r.err])
           /\ IF request.i = Len(request.stmts)
              THEN Returned(request.ws, request.queries, request.stmts, "nil",
                      Append(responses, Running(request.ws, request.stmts)))
              ELSE /\ request' = [request EXCEPT !.i = @ + 1]
                   /\ responses' =
                        IF r.err # NoErr
                        THEN Append(responses,
                                Error(bqlStmtProcessingErrorCode,
                                      "Cannot process a statement", <<stmt>>))
                        ELSE responses
    /\ UNCHANGED outsideServer

\* one round of "for _, stmt := range stmts": tb.AddStmt(stmt), the error
\* response and the return when it fails, the response after the last one
QueriesAddStmt(createOk, initOk, inputOk) ==
    /\ request.pc = "loop"
    /\ LET stmt == request.stmts[request.i]
           r == addStmt(topology, sharedStates, topologyBuilderTemporaryID, stmt,
                        createOk, initOk, inputOk)
       IN  /\ topology' = r.top
           /\ sharedStates' = r.states
           /\ topologyBuilderTemporaryID' = r.id
           /\ addStmtCalls' = Append(addStmtCalls, [stmt |-> stmt, err |-> r.err])
           /\ IF r.err # NoErr
              THEN Returned(request.ws, request.queries, request.stmts, "nil",
                      <<Error(bqlStmtProcessingErrorCode,
                              "Cannot process a statement", <<stmt>>)>>)
              ELSE IF request.i = Len(request.stmts)
              THEN Returned(request.ws, request.queries, request.stmts, "nil",
                      <<Running(request.ws, request.stmts)>>)
              ELSE /\ request' = [request EXCEPT !.i = @ + 1]
                   /\ UNCHANGED responses
    /\ UNCHANGED outsideServer

\* the action has returned and the server takes the next request
QueriesReturn ==
    /\ request.pc = "done"
    /\ request' = [pc |-> "idle", ws |-> FALSE, queries |-> <<>>, stmts |-> <<>>,
                   i |-> 0, handler |-> "nil"]
    /\ responses' = <<>>
    /\ addStmtCalls' = <<>>
    /\ UNCHANGED <<topology, sharedStates, topologyBuilderTemporaryID>>
    /\ UNCHANGED outsideServer

(***************************************************************************)
(* SpecQueries: requests come in over HTTP and WebSocket one at a time.    *)
(***************************************************************************)
\* what the queries strings are made of
RequestItems ==
    {Stmt("CreateSourceStmt", "s", "dummy", <<>>, "nil", "nil"),
     Stmt("CreateSinkStmt", "k", "dummy", <<>>, "nil", "nil"),
     Stmt("CreateStreamAsSelectStmt", "q", "nil", <<Relation("s", 2, Tuples)>>,
          UnspecifiedEmitter, "nil"),
     Stmt("InsertIntoSelectStmt", "nil", "nil",
          <<Relation("q", 0, UnspecifiedIntervalUnit)>>, UnspecifiedEmitter, "k"),
     Stmt("SelectStmt", "nil", "nil", <<>>, "nil", "nil"),
     Stmt("SelectUnionStmt", "nil", "nil", <<>>, "nil", "nil"),
     Stmt("EvalStmt", "nil", "nil", <<>>, "nil", "nil"),
     Unparsable}

\* the queries strings: up to MaxStmts items
QueriesStrings == UNION {[1..n -> RequestItems] : n \in 0..MaxStmts}

\* the forms with a "queries" field that is a string
Forms == {[has |-> TRUE, isString |-> TRUE, queries |-> q] : q \in QueriesStrings}

\* the forms without such a field
BadForms == {[has |-> h, isString |-> FALSE, queries |-> <<>>] : h \in BOOLEAN}

\* the INSERT INTO statements of a queries string
Inserts(queries) ==
    Cardinality({i \in DOMAIN queries : queries[i].type = "InsertIntoSelectStmt"})

NextQueries ==
    \/ /\ request.pc = "idle"
       /\ \E ws \in BOOLEAN, form \in Forms :
            /\ topologyBuilderTemporaryID + Inserts(form.queries) <= MaxTemporaryID
            /\ Queries(ws, "none", form)
    \/ \E ws \in BOOLEAN, form \in BadForms : Queries(ws, "none", form)
    \/ \E ws \in BOOLEAN, fault \in {"json", "form", "rid", "payload"} :
            Queries(ws, fault, [has |-> FALSE, isString |-> FALSE, queries |-> <<>>])
    \/ \E createOk \in BOOLEAN, initOk \in BOOLEAN, inputOk \in BOOLEAN :
            QueriesAddStmt(createOk, initOk, inputOk)
    \/ QueriesReturn

InitQueries == newBuilder /\ noBQLBox /\ noTuple /\ newTopologyBuilder /\ noRequest
        /\ noSelect /\ newRegistries

SpecQueries == InitQueries /\ [][NextQueries]_vars

(***************************************************************************)
(* The handlers of a streaming SELECT: handleSelectUnionStmt (HTTP         *)
(* multipart) and handleSelectUnionStmtWebSocket.  The temporary sink      *)
(* sends each tuple on the unbuffered output channel and closes it when    *)
(* it stops.                                                               *)
(***************************************************************************)
\* the tuples the temporary sink gets, and the timer events of a handler
MaxTuples == 2
MaxPolls == 2

\* the rids of the requests
Rids == {1, 2}

\* what the handlers of a SELECT leave alone
outsideSelect == <<builderVars, bqlBoxVars, tupleVars, stmtVars, serverVars,
        registryVars>>

\* a response sent on the WebSocket connection, or a write on the HTTP
\* connection (rid 0), and whether the send succeeded
Msg(rid, type, ok) == [rid |-> rid, type |-> type, ok |-> ok]

\* the deferred functions run: the multipart writer and the hijacked
\* connection are closed (HTTP, once hijacked), then the drainer is started
Exit(msgs, hijacked) ==
    /\ sel' = [sel EXCEPT !.pc = "go"]
    /\ conn' = IF hijacked /\ ~sel.ws THEN Append(msgs, Msg(0, "close", TRUE)) ELSE msgs

\* the handler up to its defer: fetchTopology (tbOk) and AddSelectUnionStmt
\* (ok), which starts the temporary sink
SelectSetup(ws, rid, tbOk, ok) ==
    /\ sel.pc = "idle"
    /\ IF ~tbOk
       THEN /\ sel' = [sel EXCEPT !.pc = "returned", !.ws = ws, !.rid = rid]
            /\ conn' = IF ws THEN <<>> ELSE <<Msg(0, "error", TRUE)>>
            /\ UNCHANGED sn
       ELSE IF ~ok
       THEN /\ sel' = [sel EXCEPT !.pc = "returned", !.ws = ws, !.rid = rid]
            /\ conn' = <<Msg(IF ws THEN rid ELSE 0, "error", TRUE)>>
            /\ UNCHANGED sn
       ELSE /\ sel' = [sel EXCEPT !.pc = IF ws THEN "sos" ELSE "hijack",
                                  !.ws = ws, !.rid = rid]
            /\ sn' = [sn EXCEPT !.state = "running"]
            /\ UNCHANGED conn
    /\ UNCHANGED <<ch, drainer>>
    /\ UNCHANGED outsideSelect

\* the handler that goes on to the loop after a failed send of "sos"
SelectSosIgnoresError(ok) ==
    /\ sel.pc = "sos"
    /\ sel' = [sel EXCEPT !.pc = "loop"]
    /\ conn' = Append(conn, Msg(sel.rid, "sos", ok))
    /\ UNCHANGED <<ch, sn, drainer>>
    /\ UNCHANGED outsideSelect

\* websocket.JSON.Send of "sos"
SelectSos(ok) ==
    /\ sel.pc = "sos"
    /\ IF ok
       THEN /\ sel' = [sel EXCEPT !.pc = "loop"]
            /\ conn' = Append(conn, Msg(sel.rid, "sos", TRUE))
       ELSE Exit(Append(conn, Msg(sel.rid, "sos", FALSE)), FALSE)
    /\ UNCHANGED <<ch, sn, drainer>>
    /\ UNCHANGED outsideSelect

\* the handler whose defer of the drainer and of Stop comes after rw.Hijack
SelectHijackBeforeDefer(ok) ==
    /\ sel.pc = "hijack"
    /\ IF ok
       THEN /\ sel' = [sel EXCEPT !.pc = "header"]
            /\ UNCHANGED conn
       ELSE /\ sel' = [sel EXCEPT !.pc = "returned"]
            /\ conn' = Append(conn, Msg(0, "error", TRUE))
    /\ UNCHANGED <<ch, sn, drainer>>
    /\ UNCHANGED outsideSelect

\* rw.Hijack(): on failure an internal server error is rendered
SelectHijack(ok) ==
    /\ sel.pc = "hijack"
    /\ IF ok
       THEN /\ sel' = [sel EXCEPT !.pc = "header"]
            /\ UNCHANGED conn
       ELSE Exit(Append(conn, Msg(0, "error", TRUE)), FALSE)
    /\ UNCHANGED <<ch, sn, drainer>>
    /\ UNCHANGED outsideSelect

\* the header of the multipart response is written
SelectHeader(ok) ==
    /\ sel.pc = "header"
    /\ IF ok
       THEN /\ sel' = [sel EXCEPT !.pc = "loop"]
            /\ conn' = Append(conn, Msg(0, "header", TRUE))
       ELSE Exit(Append(conn, Msg(0, "header", FALSE)), TRUE)
    /\ UNCHANGED <<ch, sn, drainer>>
    /\ UNCHANGED outsideSelect

\* "case v, ok := <-ch" with a tuple: it is sent as a "result" or written as
\* a part
SelectReceive(ok) ==
    /\ sel.pc = "loop"
    /\ ch.offered
    /\ ch' = [ch EXCEPT !.offered = FALSE]
    /\ LET m == Msg(IF sel.ws THEN sel.rid ELSE 0,
                    IF sel.ws THEN "result" ELSE "part", ok)
       IN  IF ok
           THEN /\ sel' = [sel EXCEPT !.sent = TRUE]
                /\ conn' = Append(conn, m)
           ELSE Exit(Append(conn, m), TRUE)
    /\ UNCHANGED <<sn, drainer>>
    /\ UNCHANGED outsideSelect

\* "case v, ok := <-ch" on the closed channel: "eos" is sent over WebSocket
SelectClosed(ok) ==
    /\ sel.pc = "loop"
    /\ ch.closed /\ ~ch.offered
    /\ Exit(IF sel.ws THEN Append(conn, Msg(sel.rid, "eos", ok)) ELSE conn, TRUE)
    /\ UNCHANGED <<ch, sn, drainer>>
    /\ UNCHANGED outsideSelect

\* "case <-ping" and "case <-readPoll": after a minute without a tuple a
\* "ping" is sent over WebSocket, and the HTTP connection is read with a
\* deadline (ok: the send succeeded, the read timed out)
SelectPoll(ok) ==
    /\ sel.pc = "loop"
    /\ sel.polls < MaxPolls
    /\ IF sel.sent
       THEN /\ sel' = [sel EXCEPT !.sent = FALSE, !.polls = @ + 1]
            /\ UNCHANGED conn
       ELSE IF sel.ws
       THEN IF ok
            THEN /\ sel' = [sel EXCEPT !.polls = @ + 1]
                 /\ conn' = Append(conn, Msg(sel.rid, "ping", TRUE))
            ELSE Exit(Append(conn, Msg(sel.rid, "ping", FALSE)), TRUE)
       ELSE IF ok
            THEN /\ sel' = [sel EXCEPT !.polls = @ + 1]
                 /\ UNCHANGED conn
            ELSE Exit(conn, TRUE)
    /\ UNCHANGED <<ch, sn, drainer>>
    /\ UNCHANGED outsideSelect

\* the deferred function: "go func() { for _ = range ch {} }()"
SelectGo ==
    /\ sel.pc = "go"
    /\ sel' = [sel EXCEPT !.pc = "stop"]
    /\ drainer' = "running"
    /\ UNCHANGED <<conn, ch, sn>>
    /\ UNCHANGED outsideSelect

\* the deferred function: sn.Stop() is called
SelectStop ==
    /\ sel.pc = "stop"
    /\ sel' = [sel EXCEPT !.pc = "stopping"]
    /\ sn' = [sn EXCEPT !.stops = @ + 1,
                        !.state = IF @ = "running" THEN "stopping" ELSE @]
    /\ UNCHANGED <<conn, ch, drainer>>
    /\ UNCHANGED outsideSelect

\* sn.Stop() returns when the sink has stopped, and the handler returns
SelectReturn ==
    /\ sel.pc = "stopping"
    /\ sn.state = "stopped"
    /\ sel' = [sel EXCEPT !.pc = "returned"]
    /\ UNCHANGED <<conn, ch, sn, drainer>>
    /\ UNCHANGED outsideSelect

\* the drainer receives a tuple
Drain ==
    /\ drainer = "running"
    /\ ch.offered
    /\ ch' = [ch EXCEPT !.offered = FALSE]
    /\ UNCHANGED <<sel, conn, sn, drainer>>
    /\ UNCHANGED outsideSelect

\* the drainer finds the channel closed and ends
DrainEnd ==
    /\ drainer = "running"
    /\ ch.closed /\ ~ch.offered
    /\ drainer' = "done"
    /\ UNCHANGED <<sel, conn, ch, sn>>
    /\ UNCHANGED outsideSelect

\* the temporary sink gets a tuple and blocks on its send to the channel
SinkWrite ==
    /\ sn.state \in {"running", "stopping"}
    /\ ~ch.offered
    /\ sn.tuples < MaxTuples
    /\ ch' = [ch EXCEPT !.offered = TRUE]
    /\ sn' = [sn EXCEPT !.tuples = @ + 1]
    /\ UNCHANGED <<sel, conn, drainer>>
    /\ UNCHANGED outsideSelect

\* the temporary sink stops, after Stop() or when its input has ended, once
\* no send is pending; it closes the channel
SinkStopped ==
    /\ sn.state \in {"running", "stopping"}
    /\ ~ch.offered
    /\ sn' = [sn EXCEPT !.state = "stopped"]
    /\ ch' = [ch EXCEPT !.closed = TRUE]
    /\ UNCHANGED <<sel, conn, drainer>>
    /\ UNCHANGED outsideSelect

NextSelect ==
    \/ \E ws \in BOOLEAN, rid \in Rids, tbOk \in BOOLEAN, ok \in BOOLEAN :
            SelectSetup(ws, rid, tbOk, ok)
    \/ \E ok \in BOOLEAN : SelectSos(ok)
    \/ \E ok \in BOOLEAN : SelectHijack(ok)
    \/ \E ok \in BOOLEAN : SelectHeader(ok)
    \/ \E ok \in BOOLEAN : SelectReceive(ok)
    \/ \E ok \in BOOLEAN : SelectClosed(ok)
    \/ \E ok \in BOOLEAN : SelectPoll(ok)
    \/ SelectGo
    \/ SelectStop
    \/ SelectReturn
    \/ Drain
    \/ DrainEnd
    \/ SinkWrite
    \/ SinkStopped

InitSelect == newBuilder /\ noBQLBox /\ noTuple /\ newTopologyBuilder /\ noRequest
        /\ noSelect /\ newRegistries

SpecSelect == InitSelect /\ [][NextSelect]_vars

\* the handler and the drainer go on, and the sink stops once it may
FairSelect ==
    /\ WF_vars(\E ok \in BOOLEAN : SelectSos(ok))
    /\ WF_vars(\E ok \in BOOLEAN : SelectHijack(ok))
    /\ WF_vars(\E ok \in BOOLEAN : SelectHeader(ok))
    /\ WF_vars(\E ok \in BOOLEAN : SelectReceive(ok))
    /\ WF_vars(\E ok \in BOOLEAN : SelectClosed(ok))
    /\ WF_vars(SelectGo)
    /\ WF_vars(SelectStop)
    /\ WF_vars(SelectReturn)
    /\ WF_vars(Drain)
    /\ WF_vars(DrainEnd)
    /\ WF_vars(SinkStopped /\ sn.state = "stopping")

SpecSelectFair == InitSelect /\ [][NextSelect]_vars /\ FairSelect

(***************************************************************************)
(* The UDSF creator registries: the global one and its copy.  Every method *)
(* holds the RWMutex of its registry from its first statement to its       *)
(* return.                                                                 *)
(***************************************************************************)
TypeNames == {"a", "b"}

\* the creators; "c1" accepts one argument, "c2" any number
UDSFCreators == {"c1", "c2"}
Arities == {1, 2}
Accept(c, arity) == c = "c2" \/ arity = 1

\* what the calls on the registries leave alone
outsideRegistry == <<builderVars, bqlBoxVars, tupleVars, stmtVars, serverVars,
                     selectVars>>

\* r.creators of the registry g
creatorsOf(g) == maps[registry[g].creators]

\* the map m without the key k
MapDelete(m, k) == [x \in DOMAIN m \ {k} |-> m[x]]

\* the goroutine th calls a method of the registry g
RegCall(th, op, g, typeName, c, arity) ==
    /\ thr[th].pc = "idle"
    /\ registry[g].creators # "nil"
    /\ thr' = [thr EXCEPT ![th] = [pc |-> "lock", op |-> op, reg |-> g,
                                   typeName |-> typeName, c |-> c,
                                   arity |-> arity, ok |-> FALSE, m |-> EmptyMap]]
    /\ UNCHANGED <<maps, registry, listed, regRet>>
    /\ UNCHANGED outsideRegistry

\* the method returns err and out; the deferred Unlock or RUnlock runs
RegReturn(th, err, out) ==
    /\ regRet' = [th |-> th, op |-> thr[th].op, err |-> err, out |-> out]
    /\ thr' = [thr EXCEPT ![th] = idleThread]
    /\ registry' = [registry EXCEPT ![thr[th].reg].w = IF @ = th THEN "free" ELSE @,
                                    ![thr[th].reg].r = @ \ {th}]

\* a Lock that does not wait for the goroutine that holds the mutex
RegLockNotExclusive(th) ==
    /\ thr[th].pc = "lock"
    /\ registry' = [registry EXCEPT ![thr[th].reg].w = th]
    /\ thr' = [thr EXCEPT ![th].pc = IF thr[th].op = "Register" THEN "check" ELSE "body"]
    /\ UNCHANGED <<maps, listed, regRet>>
    /\ UNCHANGED outsideRegistry

\* r.m.Lock() of Register and Unregister, r.m.RLock() of Lookup and List
RegLock(th) ==
    /\ thr[th].pc = "lock"
    /\ registry[thr[th].reg].w = "free"
    /\ IF thr[th].op \in {"Register", "Unregister"}
       THEN /\ registry[thr[th].reg].r = {}
            /\ registry' = [registry EXCEPT ![thr[th].reg].w = th]
       ELSE registry' = [registry EXCEPT ![thr[th].reg].r = @ \cup {th}]
    /\ thr' = [thr EXCEPT ![th].pc = IF thr[th].op = "Register" THEN "check" ELSE "body"]
    /\ UNCHANGED <<maps, listed, regRet>>
    /\ UNCHANGED outsideRegistry

\* Register: "if _, ok := r.creators[typeName]; ok"
RegisterCheck(th) ==
    /\ thr[th].pc = "check"
    /\ thr' = [thr EXCEPT ![th].pc = "act",
                          ![th].ok = thr[th].typeName \in DOMAIN creatorsOf(thr[th].reg)]
    /\ UNCHANGED <<maps, registry, listed, regRet>>
    /\ UNCHANGED outsideRegistry

\* Register: the error, or "r.creators[typeName] = c" and nil
Register(th) ==
    /\ thr[th].pc = "act"
    /\ IF thr[th].ok
       THEN /\ RegReturn(th, <<"a UDSF type is already registered", thr[th].typeName>>, "nil")
            /\ UNCHANGED maps
       ELSE /\ RegReturn(th, NoErr, "nil")
            /\ maps' = [maps EXCEPT ![registry[thr[th].reg].creators] =
                            MapSet(@, thr[th].typeName, thr[th].c)]
    /\ UNCHANGED listed
    /\ UNCHANGED outsideRegistry

\* Lookup that returns the creator whatever the arity
LookupIgnoresArity(th) ==
    /\ thr[th].pc = "body" /\ thr[th].op = "Lookup"
    /\ IF thr[th].typeName \notin DOMAIN creatorsOf(thr[th].reg)
       THEN RegReturn(th, <<"a UDSF type is not registered", thr[th].typeName>>, "nil")
       ELSE RegReturn(th, NoErr, creatorsOf(thr[th].reg)[thr[th].typeName])
    /\ UNCHANGED <<maps, listed>>
    /\ UNCHANGED outsideRegistry

\* Lookup(typeName, arity)
Lookup(th) ==
    /\ thr[th].pc = "body" /\ thr[th].op = "Lookup"
    /\ IF thr[th].typeName \notin DOMAIN creatorsOf(thr[th].reg)
       THEN RegReturn(th, <<"a UDSF type is not registered", thr[th].typeName>>, "nil")
       ELSE IF ~Accept(creatorsOf(thr[th].reg)[thr[th].typeName], thr[th].arity)
       THEN RegReturn(th, <<"a UDSF type doesn't accept the given arity",
                            thr[th].typeName, thr[th].arity>>, "nil")
       ELSE RegReturn(th, NoErr, creatorsOf(thr[th].reg)[thr[th].typeName])
    /\ UNCHANGED <<maps, listed>>
    /\ UNCHANGED outsideRegistry

\* List that returns the map of the registry itself
ListSharesMap(th) ==
    /\ thr[th].pc = "body" /\ thr[th].op = "List"
    /\ listed' = registry[thr[th].reg].creators
    /\ UNCHANGED maps
    /\ RegReturn(th, NoErr, "nil")
    /\ UNCHANGED outsideRegistry

\* List(): the entries are copied into a new map, which the caller gets
List(th) ==
    /\ thr[th].pc = "body" /\ thr[th].op = "List"
    /\ listed' = "listMap"
    /\ maps' = [maps EXCEPT !["listMap"] = creatorsOf(thr[th].reg)]
    /\ RegReturn(th, NoErr, "nil")
    /\ UNCHANGED outsideRegistry

\* Unregister(typeName): delete(r.creators, typeName)
Unregister(th) ==
    /\ thr[th].pc = "body" /\ thr[th].op = "Unregister"
    /\ maps' = [maps EXCEPT ![registry[thr[th].reg].creators] =
                    MapDelete(@, thr[th].typeName)]
    /\ RegReturn(th, NoErr, "nil")
    /\ UNCHANGED listed
    /\ UNCHANGED outsideRegistry

\* CopyGlobalUDSFCreatorRegistry: "m, err := globalUDSFCreatorRegistry.List()"
CopyList(th) ==
    /\ thr[th].pc = "body" /\ thr[th].op = "Copy"
    /\ thr' = [thr EXCEPT ![th].pc = "fill", ![th].m = creatorsOf("global")]
    /\ registry' = [registry EXCEPT !["global"].r = @ \ {th}]
    /\ UNCHANGED <<maps, listed, regRet>>
    /\ UNCHANGED outsideRegistry

\* CopyGlobalUDSFCreatorRegistry: every entry of m is registered in the new
\* registry r, and r is returned
CopyFill(th) ==
    /\ thr[th].pc = "fill"
    /\ maps' = [maps EXCEPT !["copyMap"] = thr[th].m]
    /\ regRet' = [th |-> th, op |-> "Copy", err |-> NoErr, out |-> "nil"]
    /\ thr' = [thr EXCEPT ![th] = idleThread]
    /\ registry' = [registry EXCEPT !["copy"].creators = "copyMap"]
    /\ UNCHANGED listed
    /\ UNCHANGED outsideRegistry

\* the caller of List sets (c a creator) or deletes (c = "nil") an entry of
\* the map it got
ModifyMap(typeName, c) ==
    /\ listed # "nil"
    /\ maps' = [maps EXCEPT ![listed] =
                    IF c = "nil" THEN MapDelete(@, typeName) ELSE MapSet(@, typeName, c)]
    /\ UNCHANGED <<registry, listed, thr, regRet>>
    /\ UNCHANGED outsideRegistry

(***************************************************************************)
(* SpecRegistry: "t1" calls every method and makes the copy, "t2"          *)
(* registers and unregisters "a" in the global registry beside it.         *)
(***************************************************************************)
\* the registries that are there
Registries == {g \in {"global", "copy"} : registry[g].creators # "nil"}

NextRegistry ==
    \/ \E g \in Registries : RegCall("t1", "Register", g, "a", "c1", 0)
    \/ RegCall("t1", "Register", "global", "b", "c2", 0)
    \/ RegCall("t2", "Register", "global", "a", "c2", 0)
    \/ \E g \in Registries : RegCall("t1", "Unregister", g, "a", "nil", 0)
    \/ RegCall("t2", "Unregister", "global", "a", "nil", 0)
    \/ \E g \in Registries, arity \in Arities :
            RegCall("t1", "Lookup", g, "a", "nil", arity)
    \/ \E g \in Registries : RegCall("t1", "List", g, "nil", "nil", 0)
    \/ /\ registry["copy"].creators = "nil"
       /\ RegCall("t1", "Copy", "global", "nil", "nil", 0)
    \/ \E th \in RegThreads : RegLock(th)
    \/ \E th \in RegThreads : RegisterCheck(th)
    \/ \E th \in RegThreads : Register(th)
    \/ \E th \in RegThreads : Lookup(th)
    \/ \E th \in RegThreads : List(th)
    \/ \E th \in RegThreads : Unregister(th)
    \/ \E th \in RegThreads : CopyList(th)
    \/ \E th \in RegThreads : CopyFill(th)
    \/ \E n \in {"a"}, c \in {"c1", "nil"} : ModifyMap(n, c)

InitRegistry == newBuilder /\ noBQLBox /\ noTuple /\ newTopologyBuilder /\ noRequest
        /\ noSelect /\ newRegistries

SpecRegistry == InitRegistry /\ [][NextRegistry]_vars

(***************************************************************************)
(* Claims on the builder                                                   *)
(***************************************************************************)
UsedNames == DOMAIN sources \cup DOMAIN boxes \cup DOMAIN sinks

NamesOfOneKind ==
    /\ DOMAIN sources \cap DOMAIN boxes = {}
    /\ DOMAIN sources \cap DOMAIN sinks = {}
    /\ DOMAIN boxes \cap DOMAIN sinks = {}

\* an Add* call on the name n that returns a declarer with an error and leaves
\* the node maps and the edge list as they are
RejectedAdd ==
    /\ ret'.d.err # NoErr
    /\ UNCHANGED <<sources, boxes, sinks, Edges>>

\* C1: AddSource, AddBox and AddSink with a name that a source, box or sink
\* already uses return a declarer whose Err() is non-nil and leave the
\* sources, boxes and sinks maps and the edge list unchanged; no name is held
\* by two kinds of node.
C1_NameTaken ==
    /\ []NamesOfOneKind
    /\ [][RejectedAdd \/ \A n \in UsedNames :
            /\ ~ \E s \in SourceVals : AddSource(n, s)
            /\ ~ \E b \in BoxVals : AddBox(n, b)
            /\ ~ \E k \in SinkVals : AddSink(n, k)]_vars

\* a box was added under the name of a source that holds another object than
\* the one a later AddSource on that name passes
C1_Witness ==
    /\ ret.op = "AddBox"
    /\ ret.d.err = <<"there is already a source called", "n1">>
    /\ sources["n1"] = "src2"
    /\ "n2" \in DOMAIN sinks

\* the edges of the list, as a set
EdgeSet(edges) == {edges[i] : i \in 1..Len(edges)}

\* C2: the edge list never contains two equal (from, to, input name) triples.
C2_NoDuplicateEdges ==
    \A i, j \in 1..Len(Edges) : i # j => Edges[i] # Edges[j]

\* the nodes reached from the nodes of S over at least one edge
RECURSIVE ReachedFrom(_, _, _)
ReachedFrom(edges, S, k) ==
    LET step == {e.To : e \in {f \in EdgeSet(edges) : f.From \in S}}
    IN  IF k = 0 THEN {} ELSE step \cup ReachedFrom(edges, step, k - 1)

\* the edge list contains a directed cycle, anywhere in the graph
HasDirectedCycle(edges) ==
    \E n \in Names : n \in ReachedFrom(edges, {n}, Len(edges))

\* C3: when the edge list contains a directed cycle and a source exists, Build
\* fails and returns no topology; a topology Build returns has an acyclic
\* edge set.
C3_BuildRejectsEveryCycle ==
    /\ ret.op = "Build" /\ ret.st # NilTopology => ~HasDirectedCycle(ret.st[1].chans)
    /\ ret.op = "Build" /\ HasDirectedCycle(Edges) /\ DOMAIN sources # {}
            => ret.err # NoErr /\ ret.st = NilTopology

\* path is a closed walk over the edges: at least two elements, the same
\* first and last node, each consecutive pair an edge From -> To
ClosedWalk(path, edges) ==
    /\ Len(path) >= 2
    /\ path[1] = path[Len(path)]
    /\ \A i \in 1..(Len(path) - 1) :
            \E e \in EdgeSet(edges) : e.From = path[i] /\ e.To = path[i + 1]

\* C4: whenever hasCycle reports a cycle, the path it returns has at least two
\* elements, starts and ends at the same node, and follows edges of the list.
C4_CyclePathIsClosedWalk ==
    \A o \in rangeOrders(sources) :
        hasCycle(o).has => ClosedWalk(hasCycle(o).path, Edges)

\* Build reported a cycle through three distinct boxes
C4_Witness ==
    /\ ret.op = "Build"
    /\ Len(ret.err) = 5
    /\ ret.err[1] = "the topology has a cycle"
    /\ Cardinality({ret.err[2], ret.err[3], ret.err[4]}) = 3

AddOps == {"AddSource", "AddBox", "AddSink"}

\* C5: after a successful Build every AddSource, AddBox and AddSink returns a
\* declarer with an error and leaves the sources, boxes and sinks maps
\* unchanged, and every Build returns an error and no topology.
C5_FrozenAfterBuild ==
    [][builtFlag =>
        /\ builtFlag'
        /\ ret'.op \in AddOps =>
                ret'.d.err # NoErr /\ UNCHANGED <<sources, boxes, sinks>>
        /\ ret'.op = "Build" => ret'.err # NoErr /\ ret'.st = NilTopology]_vars

\* AddBox was called on a built builder that holds boxes and edges
C5_Witness ==
    /\ builtFlag
    /\ ret.op = "AddBox"
    /\ ret.d.err = topologyBuilderAlreadyCalledBuildMsg
    /\ Len(Edges) > 0

\* the last call was a Build that failed on a builder that was not built
FailedBuild ==
    /\ ret.op = "Build"
    /\ ret.err # NoErr
    /\ ret.err # topologyBuilderAlreadyCalledBuildMsg

\* C6: Build without sources fails and returns no topology; a Build that
\* fails for want of a source or for a cycle leaves the builder unfrozen and
\* its node maps and edge list unchanged, and an Add* of an unused name right
\* after it succeeds.
C6_FailedBuildChangesNothing ==
    /\ [](FailedBuild => ~builtFlag /\ ret.st = NilTopology)
    /\ [][ret'.op = "Build" =>
            /\ DOMAIN sources = {} => ret'.err # NoErr /\ ret'.st = NilTopology
            /\ ret'.err # NoErr =>
                    UNCHANGED <<sources, boxes, sinks, Edges, builtFlag>>]_vars
    /\ [][FailedBuild /\ ret'.op \in AddOps /\ UsedNames' # UsedNames
            => ret'.d.err = NoErr]_vars

\* Build failed for want of a source on a builder that has boxes and edges
C6_Witness ==
    /\ ret.op = "Build"
    /\ ret.err = <<"there must be at least one source">>
    /\ Len(Edges) > 0
    /\ ~builtFlag

\* an Input call that leaves an error on the declarer and appends no edge
RejectedInput ==
    /\ ret'.d.err # NoErr
    /\ UNCHANGED Edges

\* C7: Input and NamedInput with a reference that names neither a source nor
\* a box set an error on the declarer and append no edge; the From of every
\* edge is a source or a box.
C7_UnknownRef ==
    /\ [](\A e \in EdgeSet(Edges) : e.From \in DOMAIN sources \cup DOMAIN boxes)
    /\ [][RejectedInput \/ \A d \in held, r \in Names :
            \/ r \in DOMAIN sources \cup DOMAIN boxes
            \/ /\ ~ \E l \in InputNames : NamedInput(d, r, l)
               /\ ~ SinkInput(d, r)]_vars

\* a box declarer was given the name of a sink as its input
C7_Witness ==
    /\ ret.op = "NamedInput"
    /\ ret.d.tb
    /\ Len(ret.d.err) = 2
    /\ ret.d.err[1] = "there is no box or source named"
    /\ ret.d.err[2] \in DOMAIN sinks

\* the input names a box admits by its input constraints, as the claim states
Admits(ic, inputName) ==
    \/ ic.isNil
    \/ ic.schemaNil
    \/ inputName \in ic.Schema
    \/ "*" \in ic.Schema

LabelRejected(inputName) == <<"you cannot use as an input name", inputName>>

\* C8: a NamedInput that reaches the check of the input constraints passes it
\* exactly if the box has no constraints or no schema, or the schema declares
\* the input name or "*"; otherwise the declarer gets the error and no edge
\* is appended.
C8_InputConstraints ==
    [][\A d \in held, r \in {"n1", "n2"}, l \in InputNames :
        (/\ ret'.op = "NamedInput"
         /\ d.err = NoErr
         /\ r \in DOMAIN sources \cup DOMAIN boxes
         /\ InputConstraints(d.node).err = NoErr
         /\ NamedInput(d, r, l))
        => IF Admits(InputConstraints(d.node).ic, l)
           THEN ret'.d.err # LabelRejected(l)
           ELSE ret'.d.err = LabelRejected(l) /\ UNCHANGED Edges]_vars

\* Input, which passes "*", was rejected by a box whose schema declares "x" only
C8_Witness ==
    /\ ret.op = "NamedInput"
    /\ ret.d.node = "boxX"
    /\ ret.d.err = LabelRejected("*")

\* C9: once a declarer has an error, every Input or NamedInput on it leaves
\* the edge list unchanged and the declarer keeps that error.
C9_FirstErrorSticks ==
    /\ [][\A d \in declarers : d.err # NoErr => d \in declarers']_vars
    /\ [][\A d \in held, r \in Names :
            (/\ d.err # NoErr
             /\ ret'.op \in {"Input", "NamedInput"}
             /\ (SinkInput(d, r) \/ \E l \in InputNames : NamedInput(d, r, l)))
            => ret'.d = d /\ UNCHANGED Edges]_vars

\* NamedInput was called on the declarer that AddBox returned with an error
C9_Witness ==
    /\ ret.op = "NamedInput"
    /\ ~ret.d.tb
    /\ ret.d.err # NoErr

(***************************************************************************)
(* Claims on the bqlBox                                                    *)
(***************************************************************************)
\* the Write calls of the box that returned without error
Emitted == {i \in 1..Len(writes) : writes[i].ok}

\* C10: with a limit L >= 0 and any sampling type, the number of tuples the
\* box has written to its writers without error never exceeds L.
C10_EmissionsWithinLimit ==
    emitterLimit >= 0 => Cardinality(Emitted) <= emitterLimit

\* a time-based box wrote its one allowed tuple and holds another that
\* Process stored afterwards
C10_Witness ==
    /\ emitterSamplingType = TimeBasedSampling
    /\ emitterLimit = 1
    /\ Cardinality(Emitted) = 1
    /\ lastTuple # -1
    /\ ticker = "stopped"

\* no Process call is running
AllIdle == \A p \in ProcThreads : procs[p].pc = "idle"

\* every Write so far returned nil
WritesSucceeded == \A i \in 1..Len(writes) : writes[i].ok

\* the rows the box wrote, in the order of the Write calls
WrittenRows == [i \in 1..Len(writes) |-> writes[i].row]

\* of the rows 0 .. n-1, those whose index is divisible by k, in order
EveryKth(n, k) == SelectSeq([i \in 1..n |-> i - 1], LAMBDA r : r % k = 0)

\* C11: with count-based sampling k >= 1, no limit and writes that succeed,
\* once the Process calls that generated n rows in total have returned, the
\* box has written the rows whose 0-based generation index is divisible by
\* k, in generation order (ceil(n/k) of them), however the rows were split
\* between the calls.
C11_CountBasedEveryKth ==
    (/\ emitterSamplingType = CountBasedSampling
     /\ emitterSampling >= 1
     /\ emitterLimit < 0
     /\ WritesSucceeded
     /\ AllIdle)
    => /\ WrittenRows = EveryKth(generated, emitterSampling)
       /\ Len(writes) * emitterSampling >= generated
       /\ (Len(writes) - 1) * emitterSampling < generated \/ generated = 0

\* k = 2: three rows came from two Process calls, rows 0 and 2 were written
C11_Witness ==
    /\ emitterSamplingType = CountBasedSampling
    /\ emitterSampling = 2
    /\ emitterLimit < 0
    /\ AllIdle
    /\ calls = 2
    /\ generated = 3
    /\ WrittenRows = <<0, 2>>

\* C12: with time-based sampling no Process call ever calls Write; every
\* Write of the box is made by the timeEmitter.
C12_TimeBasedWritesByEmitter ==
    emitterSamplingType = TimeBasedSampling
    => \A i \in 1..Len(writes) : writes[i].by = "timeEmitter"

\* a Process call that got two rows from the plan has returned, and the
\* timeEmitter has written the later of them
C12_Witness ==
    /\ emitterSamplingType = TimeBasedSampling
    /\ AllIdle
    /\ calls = 1
    /\ generated = 2
    /\ Len(writes) = 1
    /\ writes[1].by = "timeEmitter"
    /\ writes[1].row = 1

\* the goroutine that is at its call of removeMe holds timeEmitterMutex
RemoverHoldsTimeEmitterMutex ==
    \/ \E p \in ProcThreads : procs[p].pc = "remove" /\ timeEmitterMutex = p
    \/ emitter = "Write" /\ timeEmitterMutex = "timeEmitter"

\* C13: in every interleaving of Process calls, timeEmitter ticks and
\* Terminate, removeMe is invoked at most once, and the goroutine that
\* invokes it holds timeEmitterMutex at that moment.
C13_RemoveMeOnceUnderMutex ==
    [][removed' # removed
        => /\ removed = 0 /\ removed' = 1
           /\ RemoverHoldsTimeEmitterMutex]_vars

\* the timeEmitter has invoked removeMe at the limit, and a Process call that
\* saw the limit reached stands at its own check of removeMe
C13_Witness ==
    /\ emitterSamplingType = TimeBasedSampling
    /\ removed = 1
    /\ \E p \in ProcThreads : procs[p].pc = "remove" /\ timeEmitterMutex = p

\* C14: with a limit L >= 1, no sampling, a registered removeMe and writes
\* that succeed, the box writes the generated rows in order and never more
\* than L of them; once the plan has generated at least L rows and the
\* Process calls have returned, exactly the first L rows are written,
\* removeMe has been invoked exactly once, and no later call adds a Write.
C14_LimitThenRemoved ==
    (/\ emitterSamplingType = UnspecifiedSamplingType
     /\ emitterLimit >= 1
     /\ (removeMe \/ removed > 0)
     /\ WritesSucceeded)
    => /\ WrittenRows = [i \in 1..Len(writes) |-> i - 1]
       /\ Len(writes) <= emitterLimit
       /\ (AllIdle /\ generated >= emitterLimit)
            => /\ Len(writes) = emitterLimit
               /\ removed = 1
               /\ ~removeMe

\* L = 2: the first call got three rows and wrote two of them, and a second
\* call has returned without a Write
C14_Witness ==
    /\ emitterSamplingType = UnspecifiedSamplingType
    /\ emitterLimit = 2
    /\ AllIdle
    /\ calls = 2
    /\ generated = 3
    /\ WrittenRows = <<0, 1>>
    /\ removed = 1

\* the timeEmitter has left its "for _ = range ticker.C" loop and returned
timeEmitterExited == emitter = "exited"

\* C15: with time-based sampling, once stopped is set (by Terminate or by
\* the timeEmitter at the limit) the timeEmitter eventually leaves its loop
\* and returns.
C15_StoppedEmitterExits ==
    (emitterSamplingType = TimeBasedSampling /\ stopped) ~> timeEmitterExited

\* C16: with time-based sampling, once Terminate has returned no Write is
\* performed and removeMe is not invoked any more, and a tuple that is
\* pending in lastTuple stays there unwritten.
C16_NoEmissionAfterTerminate ==
    [][(emitterSamplingType = TimeBasedSampling /\ terminator = "returned")
        => /\ writes' = writes
           /\ removed' = removed
           /\ emitter' # "Write"
           /\ lastTuple # -1 => lastTuple' # -1]_vars

\* Terminate returned while a tuple was pending; the timeEmitter took its
\* next tick, stopped its ticker and wrote nothing
C16_Witness ==
    /\ emitterSamplingType = TimeBasedSampling
    /\ terminator = "returned"
    /\ lastTuple # -1
    /\ ticker = "stopped"
    /\ emitter = "range"
    /\ writes = <<>>

\* the Process call p stands at a read of b.emitCount (lines 88 and 144; the
\* read is made only if b.emitterLimit >= 0)
ProcessReadsEmitCount(p) ==
    emitterLimit >= 0 /\ procs[p].pc \in {"limit", "after"}

\* the timeEmitter stands between its Lock and its "b.emitCount += 1"
EmitterWritesEmitCount == emitter = "Write"

\* C17: with time-based sampling every access of Process to emitCount,
\* stopped, lastTuple and lastWriter is made while Process holds
\* timeEmitterMutex, so that no such access is concurrent with one by the
\* timeEmitter.
C17_AccessUnderTimeEmitterMutex ==
    emitterSamplingType = TimeBasedSampling
    => \A p \in ProcThreads :
            ProcessReadsEmitCount(p)
            => timeEmitterMutex = p /\ ~EmitterWritesEmitCount

\* the Process call p makes its step from the test of the limit at its entry
LimitTest(p) == procs[p].pc = "limit" /\ procs'[p] # procs[p]

\* C30: a Process call that finds a limit active and emitCount at or above
\* it at its entry returns nil without feeding the tuple to the plan,
\* without a Write and without invoking removeMe, and leaves genCount,
\* emitCount, lastTuple and lastWriter as they are.
C30_OverLimitReturnsAtOnce ==
    [][\A p \in ProcThreads :
        LimitTest(p) /\ emitterLimit >= 0 /\ emitCount >= emitterLimit
        => /\ procs'[p] = idleProc
           /\ processErr' = NoErr
           /\ UNCHANGED <<generated, writes, removed, removeMe, genCount,
                          emitCount, lastTuple, lastWriter>>]_vars

(***************************************************************************)
(* Claims on the tuples of Process                                         *)
(***************************************************************************)
\* s is a prefix of r
IsPrefix(s, r) == Len(s) <= Len(r) /\ SubSeq(r, 1, Len(s)) = s

\* the tuples made so far carry, in the order of the plan's rows, the row as
\* Data, the times and the batch of t, and a Trace that begins with t.Trace
TuplesOfRows ==
    \A i \in 1..Len(tups) :
        /\ tups[i].Data = resultData[i]
        /\ tups[i].Timestamp = t.Timestamp
        /\ tups[i].ProcTimestamp = t.ProcTimestamp
        /\ tups[i].BatchID = t.BatchID
        /\ IsPrefix(Elements(t.Trace), Elements(tups[i].Trace))

\* the Trace of the tuple made last
LastTrace == Elements(tups[Len(tups)].Trace)

\* the tuples whose Trace reads differently after the step
TraceChanged ==
    {i \in 1..Len(tups) : Elements(tups[i].Trace)' # Elements(tups[i].Trace)}

\* C18: every tuple Process makes has the row as Data, Timestamp,
\* ProcTimestamp and BatchID of the input tuple t, and a Trace equal to
\* t.Trace element by element; the rows are taken in the plan's order; and
\* the Trace is the tuple's own: an append to one tuple's Trace changes
\* neither t.Trace nor the Trace of another row's tuple.
C18_TupleOfRow ==
    [][/\ TuplesOfRows'
       /\ Elements(t.Trace)' = Elements(t.Trace)
       /\ Len(tups') > Len(tups)
            => /\ LastTrace' = Elements(t.Trace)
               /\ TraceChanged = {}
       /\ Len(tups') = Len(tups) => Cardinality(TraceChanged) <= 1]_vars

\* two rows became tuples of an input tuple with a trace whose array had
\* room, and both tuples got a different event appended
C18_Witness ==
    /\ Len(tups) = 2
    /\ SliceLen(t.Trace) = 1
    /\ SliceCap(t.Trace) = 2
    /\ Elements(tups[1].Trace) = Elements(t.Trace) \o <<"INPUT">>
    /\ Elements(tups[2].Trace) = Elements(t.Trace) \o <<"OUTPUT">>

(***************************************************************************)
(* Claims on TopologyBuilder.AddStmt                                       *)
(***************************************************************************)
\* the last call AddStmt made on the topology
LastCall == stmtRet.log[Len(stmtRet.log)]

\* C19: an AddStmt call that returns an error leaves the topology with the
\* nodes and edges it had before the call, whatever the statement: a box
\* that CREATE STREAM added before an Input failed is removed again, the
\* temporary box of INSERT INTO is removed when the sink cannot be connected,
\* and nothing is added when the sink lookup, the validation or the inner
\* CREATE STREAM fails.
C19_FailedAddStmtKeepsTopology ==
    [][stmtRet'.err # NoErr
        => /\ topology' = topology
           /\ stmtRet'.node = "nil"]_vars

\* INSERT INTO k SELECT ... FROM s failed at the Input on the sink, after the
\* temporary box was added and connected to s; the box was removed
C19_Witness ==
    /\ stmtRet.stmt.type = "InsertIntoSelectStmt"
    /\ stmtRet.err = <<"the node is stopped", "k">>
    /\ Len(stmtRet.log) = 6
    /\ stmtRet.log[2] = <<"Input", "sensorbee_tmp_1", "s">>
    /\ LastCall = <<"Remove", "sensorbee_tmp_1">>
    /\ DOMAIN topology.nodes = {"s", "k"}
    /\ topology.edges = {}

\* the INSERT INTO statement has a RANGE clause on a relation or an emitter
\* clause, or names a sink the topology does not have
NotInsertable(stmt) ==
    \/ \E r \in 1..Len(stmt.Relations) : stmt.Relations[r].Unit # UnspecifiedIntervalUnit
    \/ stmt.EmitterType # UnspecifiedEmitter
    \/ stmt.Sink \notin DOMAIN topology.nodes
    \/ topology.nodes[stmt.Sink] # "sink"

\* C20: AddStmt of an INSERT INTO statement with a RANGE clause on a FROM
\* relation, with an emitter clause, or with a sink the topology does not
\* have returns an error and a nil node, and makes no call that adds a box
\* or an input on the topology.
C20_InsertIntoRejected ==
    [][(stmtRet'.stmt.type = "InsertIntoSelectStmt" /\ NotInsertable(stmtRet'.stmt))
        => /\ stmtRet'.err # NoErr
           /\ stmtRet'.node = "nil"
           /\ stmtRet'.log = <<>>
           /\ topology' = topology]_vars

\* an INSERT INTO with a RANGE clause on its second relation was rejected
\* while the sink k and both relations were in the topology
C20_Witness ==
    /\ stmtRet.stmt.type = "InsertIntoSelectStmt"
    /\ stmtRet.stmt.Sink = "k"
    /\ Len(stmtRet.stmt.Relations) = 2
    /\ stmtRet.err = rangeErr
    /\ {"s", "q", "k"} \subseteq DOMAIN topology.nodes
    /\ topology.nodes["k"] = "sink"

\* the input edges a box named name gets from the relations rels
RelationEdges(name, rels) ==
    {[From |-> rels[i].Name, To |-> name, InputName |-> rels[i].Name] :
        i \in 1..Len(rels)}

\* the step added the box name with one input edge for each of rels, and
\* the edges extra, and nothing else
AddedBox(name, rels, extra) ==
    /\ name \notin DOMAIN topology.nodes
    /\ DOMAIN topology'.nodes = DOMAIN topology.nodes \cup {name}
    /\ topology'.nodes[name] = "box"
    /\ \A n \in DOMAIN topology.nodes : topology'.nodes[n] = topology.nodes[n]
    /\ topology'.edges = topology.edges \cup RelationEdges(name, rels) \cup extra
    /\ Cardinality(topology'.edges \ topology.edges) = Len(rels) + Cardinality(extra)
    /\ \E i \in 1..Len(stmtRet'.log) : stmtRet'.log[i] = <<"StopOnDisconnect", name>>

\* the statement the box of an AddBox call was made of
BoxStmt(call) == call[3]

FailedCalls == {i \in 1..Len(addStmtCalls) : addStmtCalls[i].err # NoErr}

\* the error response that names the statement
NamesStmt(stmt) ==
    Error(bqlStmtProcessingErrorCode, "Cannot process a statement", <<stmt>>)

\* what a statement that was applied has left in the topology
Applied(stmt) ==
    CASE stmt.type = "CreateSourceStmt" ->
            stmt.Name \in DOMAIN topology.nodes /\ topology.nodes[stmt.Name] = "source"
      [] stmt.type = "CreateSinkStmt" ->
            stmt.Name \in DOMAIN topology.nodes /\ topology.nodes[stmt.Name] = "sink"
      [] stmt.type = "CreateStateStmt" -> stmt.Name \in sharedStates
      [] stmt.type = "CreateStreamAsSelectStmt" ->
            /\ stmt.Name \in DOMAIN topology.nodes
            /\ topology.nodes[stmt.Name] = "box"
            /\ \A i \in 1..Len(stmt.Relations) :
                    \E e \in topology.edges :
                        e.From = stmt.Relations[i].Name /\ e.To = stmt.Name
      [] stmt.type = "InsertIntoSelectStmt" ->
            \E e \in topology.edges :
                /\ e.To = stmt.Sink
                /\ topology.nodes[e.From] = "box"
                /\ \A i \in 1..Len(stmt.Relations) :
                        \E f \in topology.edges :
                            f.From = stmt.Relations[i].Name /\ f.To = e.From
      [] OTHER -> FALSE

\* the calls of the request in hand follow its statements in order, stop at
\* the first failure, and their statements are in the topology
AppliedInOrder ==
    /\ Len(addStmtCalls) <= Len(request.stmts)
    /\ \A i \in 1..Len(addStmtCalls) :
            /\ addStmtCalls[i].stmt = request.stmts[i]
            /\ addStmtCalls[i].err = NoErr => Applied(request.stmts[i])
    /\ FailedCalls \subseteq {Len(addStmtCalls)}

\* the one response of a request that went into the loop over its statements
OneResponse ==
    /\ request.pc = "loop" =>
            /\ FailedCalls = {}
            /\ responses = <<>>
            /\ Len(addStmtCalls) = request.i - 1
    /\ request.pc = "done" /\ FailedCalls # {} =>
            responses = <<NamesStmt(request.stmts[Len(addStmtCalls)])>>
    /\ request.pc = "done" /\ FailedCalls = {} /\ request.handler = "nil"
       /\ request.stmts # <<>> =>
            /\ Len(addStmtCalls) = Len(request.stmts)
            /\ responses = <<Running(request.ws, request.stmts)>>

\* C22: of the statements s1..sn of a request without SELECT or EVAL, AddStmt
\* is called in request order; when AddStmt(sk) is the first to fail,
\* s1..s(k-1) are applied and stay applied, sk leaves the topology as it
\* was, no later statement is added, and the one response is an error that
\* names sk; when none fails all n are applied and the one response lists
\* the request as running.
C22_AppliedUpToFirstFailure ==
    /\ [](AppliedInOrder /\ OneResponse)
    /\ [][/\ \A n \in DOMAIN topology.nodes :
                n \in DOMAIN topology'.nodes /\ topology'.nodes[n] = topology.nodes[n]
          /\ topology.edges \subseteq topology'.edges
          /\ sharedStates \subseteq sharedStates'
          /\ FailedCalls' # FailedCalls /\ FailedCalls' # {} =>
                UNCHANGED <<topology, sharedStates>>]_vars

\* of three statements the second failed: the source of the first is in the
\* topology, the sink of the third is not, and the error names the second
C22_Witness ==
    /\ request.pc = "done"
    /\ Len(request.stmts) = 3
    /\ Len(addStmtCalls) = 2
    /\ FailedCalls = {2}
    /\ request.stmts[1].type = "CreateSourceStmt"
    /\ request.stmts[3].type = "CreateSinkStmt"
    /\ Applied(request.stmts[1])
    /\ ~Applied(request.stmts[3])
    /\ responses = <<NamesStmt(request.stmts[2])>>

\* the queries of the request in hand hold more than one statement and a
\* SELECT, SELECT UNION or EVAL among them
Mixed ==
    /\ Len(request.queries) > 1
    /\ \E i \in 1..Len(request.queries) : request.queries[i].type \in DataReturningStmts

\* C23: a request whose queries hold a SELECT, SELECT UNION or EVAL statement
\* and more than one statement gets an error from parseQueries as its one
\* response, and none of its statements is added to the topology or passed
\* to a handler; a statement is passed to a handler only when it is the one
\* statement of its request, and AddStmt is never called on it.
C23_DataReturningAlone ==
    /\ [](Mixed =>
            /\ request.pc = "done"
            /\ request.stmts = <<>>
            /\ request.handler = "nil"
            /\ addStmtCalls = <<>>
            /\ Len(responses) = 1
            /\ responses[1].type = "error")
    /\ [](request.handler # "nil" =>
            /\ Len(request.queries) = 1
            /\ request.stmts = request.queries
            /\ request.handler = handlerOf(request.ws, request.queries[1]))
    /\ [](\A i \in 1..Len(request.stmts) :
            request.stmts[i].type \in DataReturningStmts => request.handler # "nil")
    /\ [][Mixed' => UNCHANGED <<topology, sharedStates, topologyBuilderTemporaryID>>]_vars

\* CREATE SOURCE s came with a SELECT in one request: the error names the
\* SELECT and the topology has no source s
C23_Witness ==
    /\ Len(request.queries) = 2
    /\ request.queries[1].type = "CreateSourceStmt"
    /\ request.queries[2].type = "SelectStmt"
    /\ responses = <<NamesStmt(request.queries[2])>>
    /\ "s" \notin DOMAIN topology.nodes
    /\ "k" \in DOMAIN topology.nodes

(***************************************************************************)
(* Claims on the handlers of a streaming SELECT                            *)
(***************************************************************************)
\* the handler has left its loop and runs its deferred function or is back
Left == sel.pc \in {"go", "stop", "stopping", "returned"}

\* the types of the responses sent so far
Types == [i \in 1..Len(conn) |-> conn[i].type]

\* C24: of the responses to a SELECT over WebSocket, an "error" is sent only
\* when AddSelectUnionStmt failed and is then the only response; otherwise
\* "sos" is the first response and sent once; "eos" is sent only on the
\* closed channel and is the last response; a send that failed is the last
\* response, so no "eos" follows it; every response carries the rid of the
\* request; and nothing is sent once the handler has left its loop.
C24_WebSocketResponses ==
    /\ [](sel.ws =>
            /\ \A i \in 1..Len(conn) :
                /\ conn[i].rid = sel.rid
                /\ conn[i].type = "error" => Len(conn) = 1 /\ sn.state = "none"
                /\ conn[i].type = "sos" <=> i = 1 /\ sn.state # "none"
                /\ conn[i].type = "eos" => i = Len(conn) /\ ch.closed /\ Left
                /\ ~conn[i].ok => i = Len(conn) /\ Left)
    /\ [][\A rid \in Rids :
            SelectSetup(TRUE, rid, TRUE, FALSE)
            => conn' = <<Msg(rid, "error", TRUE)>> /\ sel'.pc = "returned"]_vars
    /\ [][Left => UNCHANGED conn]_vars

\* request 2 got "sos", a "result", a "ping" and "eos", and the handler is back
C24_Witness ==
    /\ sel.ws
    /\ sel.rid = 2
    /\ sel.pc = "returned"
    /\ Types = <<"sos", "result", "ping", "eos">>
    /\ \A i \in 1..Len(conn) : conn[i].ok

\* C25: in both handlers, once AddSelectUnionStmt has succeeded, Stop() of
\* the temporary sink is called exactly once on the way out, whatever ended
\* the loop; the drainer is started before that call and receives until the
\* channel is closed; and a send of the sink to the channel never stays
\* pending for ever.
C25_StopOnceAfterDrainer ==
    /\ [](/\ sn.stops <= 1
          /\ sel.pc = "returned" /\ sn.state # "none" => sn.stops = 1
          /\ sn.stops = 1 => drainer # "none"
          /\ drainer = "done" => ch.closed /\ ~ch.offered
          /\ ch.offered /\ sel.pc \in {"stop", "stopping", "returned"}
                => drainer = "running")
    /\ [][sn.stops' # sn.stops => drainer # "none" /\ sn.state # "none"]_vars
    /\ (ch.offered ~> ~ch.offered)

\* the HTTP handler could not hijack the connection: the drainer took the
\* tuple the sink was sending, Stop() was called once and the sink stopped
C25_Witness ==
    /\ ~sel.ws
    /\ sel.pc = "returned"
    /\ Types = <<"error">>
    /\ sn = [state |-> "stopped", stops |-> 1, tuples |-> 1]
    /\ drainer = "done"

(***************************************************************************)
(* Claims on the creator registries                                        *)
(***************************************************************************)
\* the goroutine th returns from the method op in this step
Returns(th, op) ==
    /\ thr[th].op = op
    /\ thr[th].pc \in {"act", "body"}
    /\ thr'[th].pc = "idle"

\* the creators of the registry a call of th is on, before and after a step
CreatorsBefore(th) == maps[registry[thr[th].reg].creators]
CreatorsAfter(th) == maps'[registry[thr[th].reg].creators]

AlreadyRegistered(typeName) == <<"a UDSF type is already registered", typeName>>

\* C26: Register(name, c) returns an error exactly if name is registered at
\* that moment, and then leaves the registry as it is, so that Lookup still
\* returns the creator registered before; otherwise name is registered to c.
\* What Register found when it looked name up is still so when it acts, and
\* of the Register calls of one name that run side by side on a registry
\* one succeeds while the others wait for the mutex and find it registered.
C26_RegisterOnce ==
    /\ [](\A th \in RegThreads :
            thr[th].pc = "act" =>
                thr[th].ok = (thr[th].typeName \in DOMAIN CreatorsBefore(th)))
    /\ [][\A th \in RegThreads :
            Returns(th, "Register") =>
                /\ regRet'.th = th /\ regRet'.op = "Register"
                /\ regRet'.err # NoErr <=> thr[th].typeName \in DOMAIN CreatorsBefore(th)
                /\ regRet'.err # NoErr =>
                        /\ regRet'.err = AlreadyRegistered(thr[th].typeName)
                        /\ UNCHANGED maps
                /\ regRet'.err = NoErr =>
                        /\ CreatorsAfter(th) =
                                MapSet(CreatorsBefore(th), thr[th].typeName, thr[th].c)
                        /\ \A o \in RegThreads \ {th} :
                                (/\ thr[o].op = "Register"
                                 /\ thr[o].reg = thr[th].reg
                                 /\ thr[o].typeName = thr[th].typeName)
                                => thr[o].pc = "lock"]_vars

\* "t1" has registered "a" while the Register of "t2" for "a" waits for the
\* mutex of the global registry
C26_Witness ==
    /\ regRet = [th |-> "t1", op |-> "Register", err |-> NoErr, out |-> "nil"]
    /\ thr["t1"].pc = "idle"
    /\ thr["t2"].pc = "lock"
    /\ thr["t2"].op = "Register"
    /\ "a" \in DOMAIN maps["globalMap"]
    /\ maps["globalMap"]["a"] = "c1"

\* C27: Lookup(name, arity) returns the creator name is registered to, and no
\* error, exactly if name is registered and the creator accepts arity; it
\* returns the not-registered error when name is not registered and the
\* arity error when the creator rejects arity; it changes no registry.
\* Unregister returns nil whether name was registered or not, and name is
\* not registered after it.
C27_Lookup ==
    [][\A th \in RegThreads :
        /\ Returns(th, "Lookup") =>
            LET n == thr[th].typeName
                m == CreatorsBefore(th)
            IN  /\ regRet'.th = th /\ regRet'.op = "Lookup"
                /\ UNCHANGED maps
                /\ IF n \notin DOMAIN m
                   THEN /\ regRet'.err = <<"a UDSF type is not registered", n>>
                        /\ regRet'.out = "nil"
                   ELSE IF ~Accept(m[n], thr[th].arity)
                   THEN /\ regRet'.err = <<"a UDSF type doesn't accept the given arity",
                                           n, thr[th].arity>>
                        /\ regRet'.out = "nil"
                   ELSE regRet'.err = NoErr /\ regRet'.out = m[n]
        /\ Returns(th, "Unregister") =>
                /\ regRet'.err = NoErr
                /\ CreatorsAfter(th) = MapDelete(CreatorsBefore(th), thr[th].typeName)]_vars

\* Lookup("a", 2) found "a" registered to "c1", which takes one argument only
C27_Witness ==
    /\ regRet = [th |-> "t1", op |-> "Lookup",
                 err |-> <<"a UDSF type doesn't accept the given arity", "a", 2>>,
                 out |-> "nil"]
    /\ "a" \in DOMAIN maps["globalMap"]
    /\ maps["globalMap"]["a"] = "c1"

\* the registries that are there before a step
Existing == {g \in {"global", "copy"} : registry[g].creators # "nil"}

\* C28: the copy gets the entries the global registry has at the moment of
\* the List call inside CopyGlobalUDSFCreatorRegistry, in a map of its own;
\* after that the entries of a registry change only by a Register or an
\* Unregister on that registry, so neither registry follows the other, and
\* setting or deleting entries of a map List returned changes no registry.
C28_CopyIsSnapshot ==
    /\ [](registry["copy"].creators # "nil" =>
            registry["copy"].creators \notin {registry["global"].creators, listed})
    /\ [](listed # registry["global"].creators)
    /\ [][\A th \in RegThreads :
            /\ thr[th].op = "Copy" /\ thr[th].pc = "body" /\ thr'[th].pc = "fill"
                    => thr'[th].m = maps[registry["global"].creators]
            /\ thr[th].pc = "fill" /\ thr'[th].pc = "idle"
                    => /\ maps'[registry'["copy"].creators] = thr[th].m
                       /\ maps'[registry'["global"].creators] =
                                maps[registry["global"].creators]]_vars
    /\ [][\A g \in Existing :
            maps'[registry[g].creators] # maps[registry[g].creators]
            => \E th \in RegThreads :
                    /\ thr[th].reg = g
                    /\ Returns(th, "Register") \/ Returns(th, "Unregister")]_vars

\* the copy was made when only "b" was registered; "a" was registered in the
\* global registry afterwards, and in the map List returned for the copy
C28_Witness ==
    /\ registry["copy"].creators = "copyMap"
    /\ maps["globalMap"] = MapSet(MapSet(EmptyMap, "a", "c2"), "b", "c2")
    /\ maps["copyMap"] = MapSet(EmptyMap, "b", "c2")
    /\ listed = "listMap"
    /\ maps["listMap"] = MapSet(MapSet(EmptyMap, "a", "c1"), "b", "c2")

(***************************************************************************)
(* Claims on the check of duplicate edges                                  *)
(***************************************************************************)
\* the edge is the first element of the edge list
IsFirstEdge(edge) == Len(Edges) > 0 /\ Edges[1] = edge

\* what a call that reached the check of duplicates does with its edge
FirstEdgeOnly(d, edge, refname) ==
    IF IsFirstEdge(edge)
    THEN /\ ret'.d.err = <<"box is already connected to", d.name, refname>>
         /\ UNCHANGED Edges
    ELSE /\ ret'.d.err = NoErr
         /\ Edges' = Append(Edges, edge)

WrittenOnce ==
    \A i, j \in 1..Len(writes) : writes[i].row = writes[j].row => i = j

\* a Process call stores its tuple and its writer in the pending slot
Stores(p) ==
    /\ procs[p].pc = "store"
    /\ procs'[p].pc # "store"
    /\ lastTuple' = procs[p].tup
    /\ lastWriter' = procs[p].s
    /\ writes' = writes

\* the timeEmitter writes the pending tuple, once, and clears the slot
WritesPending ==
    /\ emitter = "Write"
    /\ emitter' = "range"
    /\ lastTuple # -1
    /\ Len(writes') = Len(writes) + 1
    /\ SubSeq(writes', 1, Len(writes)) = writes
    /\ writes'[Len(writes')].by = "timeEmitter"
    /\ writes'[Len(writes')].row = lastTuple
    /\ writes'[Len(writes')].w = lastWriter
    /\ lastTuple' = -1
    /\ emitCount' = emitCount + 1

\* C31: with time-based sampling a tick of the timeEmitter writes at most one
\* tuple, namely the tuple a Process call stored last; a stored tuple is
\* written at most once, the pending slot being cleared by the write; and a
\* tick that finds no pending tuple writes nothing and leaves emitCount as
\* it is.
C31_TickWritesPendingOnce ==
    /\ [](emitterSamplingType = TimeBasedSampling => WrittenOnce)
    /\ [][emitterSamplingType = TimeBasedSampling =>
            /\ \A p \in ProcThreads :
                    procs[p].pc = "store" /\ procs'[p] # procs[p] => Stores(p)
            /\ lastTuple' # lastTuple =>
                    (\E p \in ProcThreads : Stores(p)) \/ WritesPending
            /\ writes' # writes => WritesPending
            /\ emitter = "locked" /\ lastTuple = -1 /\ emitter' # emitter =>
                    /\ emitter' = "range"
                    /\ UNCHANGED <<writes, emitCount, lastTuple>>]_vars

\* the first tick wrote row 1, stored over row 0 which was never written, and
\* a later tick wrote row 2
C31_Witness ==
    /\ emitterSamplingType = TimeBasedSampling
    /\ Len(writes) = 2
    /\ writes[1].row = 1
    /\ writes[2].row = 2
    /\ lastTuple = -1
    /\ emitter = "range"

(***************************************************************************)
(* Claims on a Write that fails in Process                                 *)
(***************************************************************************)
\* the Process call p makes a Write that returns an error
WriteFails(p) ==
    /\ procs[p].pc = "write"
    /\ Len(writes') = Len(writes) + 1
    /\ ~writes'[Len(writes')].ok

\* C32: when Write returns an error in Process, Process returns the error at
\* once: emitCount is not increased, the rows left of resultData are not
\* written, this call does not invoke removeMe, and mutex is released, so
\* that a later Process call goes on.
C32_WriteErrorReturned ==
    [][\A p \in ProcThreads :
        WriteFails(p)
        => /\ procs'[p] = idleProc
           /\ processErr' = <<"write failed">>
           /\ mutex = p /\ mutex' = "free"
           /\ timeEmitterMutex' = timeEmitterMutex
           /\ UNCHANGED <<emitCount, genCount, removed, removeMe, generated>>]_vars

\* the Write of row 0 failed with row 1 left to write, and a later Process
\* call wrote row 2
C32_Witness ==
    /\ emitterSamplingType = UnspecifiedSamplingType
    /\ Len(writes) = 2
    /\ ~writes[1].ok /\ writes[1].row = 0
    /\ writes[2].ok /\ writes[2].row = 2
    /\ emitCount = 1
    /\ removed = 0

(***************************************************************************)
(* Claims on the builder after Build                                       *)
(***************************************************************************)
\* C33: after a successful Build no call on the builder or on a declarer
\* obtained before the Build changes the nodes or the edge list.
C33_EdgesFrozenAfterBuild ==
    [][builtFlag => UNCHANGED <<sources, boxes, sinks, Edges>>]_vars

(***************************************************************************)
(* Claims on the cycle check of acyclic graphs                             *)
(***************************************************************************)
\* the builder is not frozen, has a source and an edge list without a cycle
AcyclicBuilder == ~builtFlag /\ DOMAIN sources # {} /\ ~HasDirectedCycle(Edges)

\* the edge list has an edge from -> to
HasEdge(from, to) == \E e \in EdgeSet(Edges) : e.From = from /\ e.To = to

\* C34: for an unfrozen builder with a source and an acyclic edge list
\* (diamonds, nodes shared by several sources and parallel edges under
\* different input names included) hasCycle reports no cycle, whatever the
\* order it takes the sources in, and Build succeeds.
C34_NoFalseCycle ==
    /\ [](AcyclicBuilder =>
            \A o \in rangeOrders(sources) :
                /\ hasCycle(o) = [has |-> FALSE, path |-> <<>>]
                /\ buildErr(o) = NoErr)
    /\ [][AcyclicBuilder /\ ret'.op = "Build" /\ ret' # ret
            => /\ ret'.err = NoErr
               /\ ret'.st = defaultStaticTopology
               /\ builtFlag']_vars

\* Build succeeded on the diamond n1 -> n3 -> n4, n1 -> n4
C34_Witness ==
    /\ ret.op = "Build" /\ ret.err = NoErr
    /\ DOMAIN sources = {"n1", "n2"}
    /\ HasEdge("n1", "n3") /\ HasEdge("n3", "n4") /\ HasEdge("n1", "n4")

(***************************************************************************)
(* Claims on emitCount                                                     *)
(***************************************************************************)
\* the Write calls of the box that returned nil
SuccessfulWrites == {i \in 1..Len(writes) : writes[i].ok}

\* C35: in every sampling mode emitCount is the number of Write calls of the
\* box that returned without error; a failed Write is never counted.
C35_EmitCountIsSuccessfulWrites == emitCount = Cardinality(SuccessfulWrites)

(***************************************************************************)
(* Claims on the two mutexes of the box                                    *)
(***************************************************************************)
\* a step of the Process call p after its b.mutex.Lock()
ProcessStep(p) ==
    \/ \E ec \in readEmitCount : ProcessLimit(p, ec)
    \/ \E k \in 0..(MaxRows - generated), ok \in BOOLEAN : ProcessPlan(p, k, ok)
    \/ \E rnd \in RandValues : ProcessRow(p, rnd)
    \/ ProcessStoreLock(p)
    \/ ProcessStore(p)
    \/ \E ok \in BOOLEAN : ProcessWrite(p, ok)
    \/ \E ec \in readEmitCount : ProcessAfter(p, ec)
    \/ ProcessRemoveLock(p)
    \/ ProcessRemove(p)

\* mutex is held by the Process calls in progress, and by them only
OneProcessBody ==
    /\ \A p \in ProcThreads : mutex = p <=> procs[p].pc # "idle"
    /\ \A p, q \in ProcThreads : procs[p].pc # "idle" /\ procs[q].pc # "idle" => p = q

\* timeEmitterMutex is held by the goroutine that is between its Lock and
\* its Unlock, and by a Process call only inside mutex
HeldWhileInside ==
    /\ timeEmitterMutex = "timeEmitter" <=> emitter \in {"locked", "Write"}
    /\ timeEmitterMutex = "Terminate" <=> terminator = "locked"
    /\ \A p \in ProcThreads :
            timeEmitterMutex = p <=> procs[p].pc \in {"store", "remove"}
    /\ timeEmitterMutex \in ProcThreads => mutex = timeEmitterMutex

\* the holder of timeEmitterMutex can take its next step, and so can the
\* holder of mutex unless it waits for timeEmitterMutex
HolderCanStep ==
    /\ timeEmitterMutex = "timeEmitter" =>
            ENABLED ((\E b \in BOOLEAN : TimeEmitterTick(b))
                        \/ (\E ok \in BOOLEAN : TimeEmitterWrite(ok)))
    /\ timeEmitterMutex = "Terminate" => ENABLED TerminateStop
    /\ \A p \in ProcThreads :
            mutex = p /\ timeEmitterMutex \in {"free", p} => ENABLED ProcessStep(p)

\* C36: Process calls, ticks of the timeEmitter and Terminate calls never
\* deadlock: one Process body runs at a time, every path releases the
\* mutexes it took, timeEmitterMutex is taken alone or inside mutex and mutex
\* is never taken by a holder of timeEmitterMutex.
C36_NoDeadlock ==
    /\ [](OneProcessBody /\ HeldWhileInside /\ HolderCanStep)
    /\ [][mutex' # mutex /\ mutex = "free" =>
            /\ mutex' \in ProcThreads
            /\ timeEmitterMutex' = timeEmitterMutex
            /\ timeEmitterMutex # mutex']_vars

\* a Process call waits inside mutex for timeEmitterMutex, which Terminate
\* holds, while the timeEmitter waits for its next tick
C36_Witness ==
    /\ \E p \in ProcThreads : mutex = p /\ procs[p].pc = "storeLock"
    /\ timeEmitterMutex = "Terminate"
    /\ emitter = "range"
    /\ Len(writes) > 0

(***************************************************************************)
(* Claims on the removal of a box that is over its limit                   *)
(***************************************************************************)
\* a removeMe callback was set on the box before the first Process call
Registered == removeMe \/ removed > 0

\* a Process call has returned, and no Process call and no tick is under way
AtRest ==
    /\ calls > 0
    /\ \A p \in ProcThreads : procs[p].pc = "idle"
    /\ emitter \notin {"locked", "Write"}

\* C37: with a limit L >= 0 (0 included) and a removeMe callback set before
\* the first Process call, in every state where a Process call has returned
\* and no Process call or tick is under way, emitCount >= L implies that
\* removeMe was invoked.
C37_ExhaustedBoxIsRemoved ==
    Registered /\ AtRest /\ overLimit(emitCount) => removed > 0

====
